---- MODULE Spec2Model ----
(***************************************************************************)
(* gps-overlay-video: the render/encode pipeline (video.go), the tile      *)
(* cache (getTileImage) and the tile prefetch pool (prefetchTiles).        *)
(*                                                                         *)
(* Three specifications share the module's variables:                      *)
(*   Spec          runVideoPipeline + generateFrames                       *)
(*   TileSpec      concurrent getTileImage calls on the two caches         *)
(*   PrefetchSpec  prefetchTiles and its concurrency limit                 *)
(* Each specification leaves the other components' variables untouched.    *)
(***************************************************************************)
EXTENDS Integers, Sequences, FiniteSets, TLC

(***************************************************************************)
(* Bounds of the model.                                                    *)
(***************************************************************************)
\* args.Workers ranges over 1..MaxWorkers
MaxWorkers == 2
\* the render window's duration ranges over 0..MaxHalfSeconds half seconds
MaxHalfSeconds == 6
\* args.Framerate ranges over 1..MaxFramerate frames per second
MaxFramerate == 1
\* runs of at most MaxFrames frames are explored
MaxFrames == 3
\* seconds added to the watchdog's clock by one step of time
TickStep == 30

\* tile keys (style, zoom, x, y) range over 1..NumKeys
NumKeys == 1
\* goroutines calling getTileImage concurrently
NumCallers == 2
\* tiles in the set handed to prefetchTiles
NumTiles == 9
\* tiles of allTilesForTrack in a run of main
NumRunTiles == 2
\* frames rendered by a run of main
NumRunFrames == 2
\* a GPX file holds at most MaxPoints points
MaxPoints == 2
\* distinct non-unit scales named by an adjustment file
NumScales == 1
\* residual scales range over 0..MaxScaleSteps steps of 0.0025 above a base
MaxScaleSteps == 4
\* renderFrame is called NumRenderCalls times on the same inputs
NumRenderCalls == 2
\* track points are PointInterval seconds (and one kilometre) apart or a
\* multiple of it, with at most MaxGridPoints points after the first
PointInterval == 5
MaxGridPoints == 3
\* an adjustment file holds at most MaxSpecs directives
MaxSpecs == 2
\* scales are 2^0 .. 2^MaxLogScale
MaxLogScale == 1
\* a preprocessed track has 2..MaxTrackLen points, with elevations of
\* 0..MaxEle metres, at 0..MaxPos kilometres along a meridian
MaxTrackLen == 3
MaxEle == 4
MaxPos == 1
\* the zoom loop: args.MapZoom in 0..MaxMapZoom, p.MapScale a fraction n/d
MaxMapZoom == 2
MaxScaleNum == 9
MaxScaleDen == 2
\* the bearing block: tracks of 3..MaxBearingLen points
MaxBearingLen == 4
\* findPointForTime: times in ticks of 1/TicksPerSecond s, tracks of
\* 2..MaxFindLen points, each point's fields at one of the levels 0..MaxLevel
TicksPerSecond == 2
MaxFindLen == 3
MaxLevel == 1
\* cutTrack: tracks of 2..MaxCutLen points, boundaries up to MaxBoundary s or km
MaxCutLen == 3
MaxBoundary == 3
\* the average speed sweep: series of 2..MaxSweepLen points, speeds 0..MaxSpeed
MaxSweepLen == 4
MaxSpeed == 2

(***************************************************************************)
(* Program constants.                                                      *)
(***************************************************************************)
\* const frameWaitTimeout = 60 * time.Second
frameWaitTimeout == 60
\* const tileFetchConcurrency = 8
tileFetchConcurrency == 8
\* math.Abs(residualMapScale-keyFloat) < 0.01, in steps of 0.0025
keyTolerance == 4
\* transitionDuration := 20 * time.Second
defaultTransition == 20
\* slopeMaxEleChange = 3.0
slopeMaxEleChange == 3
\* avgSpeedWindow, seconds
avgSpeedWindow == 15
\* math.Pi, in the unit of the bearings (pi/8, 22.5 degrees)
Pi == 8

VARIABLES
    \* ---- runVideoPipeline / generateFrames ----
    Workers,            \* args.Workers
    Framerate,          \* args.Framerate (whole frames per second)
    segmentHalfSeconds, \* segmentDuration, in half seconds
    mainPc,             \* position of runVideoPipeline
    fatal,              \* "none", or the log.Fatalf / panic that ended the process
    prodI,              \* the task producer's loop variable i
    tasks,              \* buffered channel tasks
    tasksClosed,        \* close(tasks) has run
    wpc,                \* position of each worker goroutine
    wframe,             \* frameNum held by each worker
    frameChan,          \* buffered channel frameChan (frame numbers)
    frameClosed,        \* close(frameChan) has run
    writerPc,           \* position of the encoder goroutine
    frameBuffer,        \* keys of the map frameBuffer
    nextFrameToWrite,
    written,            \* frames accepted by the encoder's stdin, in order
    elapsed,            \* seconds since the watchdog timer was last armed
    sinceArrival,       \* seconds since the last frame arrival (or the start)
    exitStatus,         \* "none", or the status ffmpegCmd.Wait() reported
    encoderStarts,      \* number of ffmpegCmd.Start() calls that succeeded
    stdinCloses,        \* number of ffmpegIn.Close() calls
    pipeBroken,         \* the encoder stopped reading its stdin
    failedFrames,       \* frames whose png.Encode failed
    premature,          \* the encoder goroutine saw frameChan closed early
    \* ---- getTileImage ----
    adjustOn,           \* args.MapBrightness != 0 || args.MapContrast != 1
    tileCache,          \* sync.Map tileCache: tilePath -> bitmap
    disk,               \* the file at tilePath under tileCacheDir
    cpc,                \* position of each caller inside getTileImage
    ckey,               \* tilePath of the caller's call
    cimg,               \* the caller's local img
    cret,               \* what the caller's last call returned
    chist,              \* what the caller's call has done so far (observation)
    succeeded,          \* per key: the bitmap of its first successful call
    tileFatal,          \* log.Fatalf after a download timeout
    \* ---- prefetchTiles ----
    prefetchPc,         \* position of prefetchTiles
    ptile,              \* per tile: where its goroutine is
    limit,              \* number of tokens in the channel limit
    wg,                 \* counter of the sync.WaitGroup
    \* ---- main ----
    args,               \* args.Is2x, args.RenderFirstFrame, args.Debug
    gpxPoints,          \* len(points) of the GPX file, -1 if it does not parse
    adjFile,            \* what args.TrackAdjustmentFile holds
    adjScales,          \* residual scales named by a well-formed file
    style2x,            \* the map style serves 512x512 tiles
    runPc,              \* position of main
    runFatal,           \* "none", or why the process ended
    prefetched,         \* tiles getTileImage has been called for
    runCache,           \* tiles held by tileCache
    mismatch,           \* a getTileImage call failed on the 2x size
    scaleCur,           \* cacheScaledTiles: the scale being built, -1 if none
    scaleDone,          \* cacheScaledTiles: scales already visited
    scaleTiles,         \* cacheScaledTiles: tiles visited for scaleCur
    scaledTileCache,    \* pairs <<scale, tile>> held by scaledTileCache
    rendered,           \* frames renderFrame has returned for
    blank,              \* frames drawn with a tile missing
    encoderStarted,     \* runVideoPipeline has started ffmpeg
    \* ---- renderFrame: choice of the tile source ----
    residualMapScale,   \* currentPoint.ResidualMapScale
    scaleKeys,          \* the keys of scaledTileCache
    renderCall,         \* the call in progress
    visitedKeys,        \* keys the range loop has visited in this call
    source,             \* per call: the scale key chosen, -1 for the dynamic path
    \* ---- applyTrackAdjustments ----
    trackTimes,         \* points[i].Timestamp, seconds after points[0]
    specs,              \* the directives parseTrackAdjustmentFile returned
    applyPc,            \* "call", or "done" once the function has run
    scaleChanges,       \* the resolved directives
    applyStatus,        \* "none", "ok" or "panic"
    scaleMultipliers,   \* the series returned, as exponents of 2
    \* ---- preprocessGpxPoints: elevation and distance ----
    gpxEle,             \* points[i].Ele, metres
    gpxPos,             \* where points[i] lies, kilometres
    trackPc,            \* position of main around preprocessGpxPoints
    smoothedEle,        \* smoothed[i].Ele
    smoothedDistance,   \* smoothed[i].Distance
    TotalDistance,      \* track.TotalDistance
    \* ---- preprocessGpxPoints: zoom and residual scale ----
    MapZoom,            \* args.MapZoom
    MapScale,           \* p.MapScale, the fraction n/d
    TileZoom,           \* p.TileZoom
    ResidualMapScale,   \* p.ResidualMapScale, the fraction n/d
    zoomPc,             \* "call", or "done" once the loop has run
    \* ---- preprocessGpxPoints: bearing smoothing ----
    segmentBearing,     \* bearing(smoothed[i], smoothed[i+1]), in units of pi/4
    Bearing,            \* smoothed[i].Bearing
    newBearings,        \* the slice newBearings
    turnAngles,         \* what angleBetweenBearings returned for each i
    bearingPc,          \* position inside the bearing block
    \* ---- preprocessGpxPoints: moving average speed ----
    sweepTimes,         \* smoothed[i].Timestamp, seconds
    Speed,              \* smoothed[i].Speed
    sweepI,             \* the loop variable i (the next point to handle)
    left,
    right,
    speedSum,
    speedCount,
    AvgSpeed,           \* smoothed[i].AvgSpeed as the fraction sum/count
    \* ---- findPointForTime ----
    findPoints,         \* the argument points
    findOffset,         \* the argument offset, in half seconds
    findResult,         \* the Point returned
    findPc,             \* "call", or "done" once the function has run
    \* ---- cutTrack, the debug dump and the render window ----
    cutTimes,           \* SmoothedPoints[i].Timestamp, seconds after the first
    cutDistance,        \* SmoothedPoints[i].Distance
    cutDebug,           \* args.Debug
    From,               \* args.From
    To,                 \* args.To
    RenderFromIndex,    \* track.RenderFromIndex
    RenderToIndex,      \* track.RenderToIndex
    cutPc,              \* position of main / runVideoPipeline
    printed,            \* indices of the points the debug loop printed
    indexed,            \* indices runVideoPipeline used on SmoothedPoints
    windowFrames        \* totalFrames of the render window

pipeVars == <<Workers, Framerate, segmentHalfSeconds, mainPc, fatal, prodI, tasks,
              tasksClosed, wpc, wframe, frameChan, frameClosed, writerPc,
              frameBuffer, nextFrameToWrite, written, elapsed, sinceArrival,
              exitStatus, encoderStarts, stdinCloses, pipeBroken, failedFrames,
              premature>>

tileVars == <<adjustOn, tileCache, disk, cpc, ckey, cimg, cret, chist, succeeded,
              tileFatal>>

prefetchVars == <<prefetchPc, ptile, limit, wg>>

runVars == <<args, gpxPoints, adjFile, adjScales, style2x, runPc, runFatal, prefetched,
             runCache, mismatch, scaleCur, scaleDone, scaleTiles, scaledTileCache,
             rendered, blank, encoderStarted>>

renderVars == <<residualMapScale, scaleKeys, renderCall, visitedKeys, source>>

adjustVars == <<trackTimes, specs, applyPc, scaleChanges, applyStatus,
                scaleMultipliers>>

trackVars == <<gpxEle, gpxPos, trackPc, smoothedEle, smoothedDistance, TotalDistance>>

zoomVars == <<MapZoom, MapScale, TileZoom, ResidualMapScale, zoomPc>>

bearingVars == <<segmentBearing, Bearing, newBearings, turnAngles, bearingPc>>

sweepVars == <<sweepTimes, Speed, sweepI, left, right, speedSum, speedCount, AvgSpeed>>

findVars == <<findPoints, findOffset, findResult, findPc>>

cutVars == <<cutTimes, cutDistance, cutDebug, From, To, RenderFromIndex, RenderToIndex,
             cutPc, printed, indexed, windowFrames>>

\* state of the point functions modelled on their own
pointVars == <<zoomVars, bearingVars, sweepVars, findVars, cutVars>>

\* state of the functions modelled on their own
otherVars == <<runVars, renderVars, adjustVars, trackVars, pointVars>>

\* groups used by UNCHANGED
outsidePipe == <<tileVars, prefetchVars, otherVars>>
outsideTile == <<pipeVars, prefetchVars, otherVars>>
outsidePrefetch == <<pipeVars, tileVars, otherVars>>
outsideRun == <<pipeVars, tileVars, prefetchVars, renderVars, adjustVars, trackVars, pointVars>>
outsideRender == <<pipeVars, tileVars, prefetchVars, runVars, adjustVars, trackVars, pointVars>>
outsideAdjust == <<pipeVars, tileVars, prefetchVars, runVars, renderVars, trackVars, pointVars>>
outsideTrack == <<pipeVars, tileVars, prefetchVars, runVars, renderVars, adjustVars, pointVars>>
outsidePoint == <<pipeVars, tileVars, prefetchVars, runVars, renderVars, adjustVars,
                  trackVars>>
cfgVars == <<Workers, Framerate, segmentHalfSeconds>>
prodVars == <<prodI, tasks, tasksClosed>>
workVars == <<wpc, wframe, failedFrames>>
timeVars == <<elapsed, sinceArrival>>
writerVars == <<writerPc, frameBuffer, nextFrameToWrite, written, stdinCloses, premature>>

(***************************************************************************)
(* Helpers                                                                 *)
(***************************************************************************)
Min(a, b) == IF a < b THEN a ELSE b

\* (mutant) the frame count rounded up instead of truncated
TotalFramesRoundedUp(halfSeconds, rate) == (halfSeconds * rate + 1) \div 2

\* totalFrames := int(segmentDuration.Seconds() * args.Framerate)
TotalFramesOf(halfSeconds, rate) == (halfSeconds * rate) \div 2

totalFrames == TotalFramesOf(segmentHalfSeconds, Framerate)

\* tasks := make(chan int, args.Workers*2)
TasksCap == Workers * 2

\* frameChan := make(chan Frame, int(args.Framerate)*2)
FrameChanCap == Framerate * 2

WorkerIds == 1..Workers

\* 0, 1, ..., n-1 as a sequence
IndexOrder(n) == [i \in 1..n |-> i - 1]

(***************************************************************************)
(* Tile cache: values                                                      *)
(***************************************************************************)
Keys == 1..NumKeys
Callers == 1..NumCallers

\* no bitmap (a nil image.Image)
NoImage == [key |-> 0, adjusted |-> FALSE]

\* the bitmap the tile provider serves for a key, decoded
Pixels(k) == [key |-> k, adjusted |-> FALSE]

\* adjustBrightnessContrast, applied when a brightness or contrast is set
Adjusted(img) == IF adjustOn THEN [img EXCEPT !.adjusted = TRUE] ELSE img

\* the cache file: missing, created but still empty, or holding a PNG
NoFile == [state |-> "absent", img |-> NoImage]
EmptyFile == [state |-> "empty", img |-> NoImage]

\* png.Encode(buf, img); out.Write(buf.Bytes())
PngFile(img) == [state |-> "png", img |-> img]

\* image.Decode(file): the bitmap, or an error on a file holding no image
Decodable(file) == file.state = "png"
Decoded(file) == file.img

\* what a call has done so far
NoHistory == [late |-> FALSE, memMiss |-> FALSE, stat |-> "none", net |-> FALSE,
              wrote |-> FALSE]
NoReturn == [status |-> "none", img |-> NoImage, late |-> FALSE]

Tiles == 1..NumTiles

\* prefetchTiles is not part of the run
PrefetchUnused ==
    /\ prefetchPc = "unused"
    /\ ptile = [t \in Tiles |-> "pending"]
    /\ limit = 0
    /\ wg = 0

\* main is not part of the run
RunUnused ==
    /\ args = [Is2x |-> FALSE, RenderFirstFrame |-> FALSE, Debug |-> FALSE]
    /\ gpxPoints = 0
    /\ adjFile = "none"
    /\ adjScales = {}
    /\ style2x = FALSE
    /\ runPc = "unused"
    /\ runFatal = "none"
    /\ prefetched = {}
    /\ runCache = {}
    /\ mismatch = FALSE
    /\ scaleCur = -1
    /\ scaleDone = {}
    /\ scaleTiles = {}
    /\ scaledTileCache = {}
    /\ rendered = {}
    /\ blank = {}
    /\ encoderStarted = FALSE

RenderCalls == 1..NumRenderCalls

\* renderFrame's choice of source is not part of the run
RenderUnused ==
    /\ residualMapScale = 0
    /\ scaleKeys = {}
    /\ renderCall = 0
    /\ visitedKeys = {}
    /\ source = [c \in RenderCalls |-> -2]

\* applyTrackAdjustments is not part of the run
AdjustUnused ==
    /\ trackTimes = <<>>
    /\ specs = <<>>
    /\ applyPc = "unused"
    /\ scaleChanges = <<>>
    /\ applyStatus = "none"
    /\ scaleMultipliers = <<>>

\* preprocessGpxPoints is not part of the run
TrackUnused ==
    /\ gpxEle = <<>>
    /\ gpxPos = <<>>
    /\ trackPc = "unused"
    /\ smoothedEle = <<>>
    /\ smoothedDistance = <<>>
    /\ TotalDistance = 0

\* the zoom loop is not part of the run
ZoomUnused ==
    /\ MapZoom = 0
    /\ MapScale = [n |-> 1, d |-> 1]
    /\ TileZoom = 0
    /\ ResidualMapScale = [n |-> 1, d |-> 1]
    /\ zoomPc = "unused"

\* the bearing block is not part of the run
BearingUnused ==
    /\ segmentBearing = <<>>
    /\ Bearing = <<>>
    /\ newBearings = <<>>
    /\ turnAngles = <<>>
    /\ bearingPc = "unused"

\* the average speed sweep is not part of the run
SweepUnused ==
    /\ sweepTimes = <<>>
    /\ Speed = <<>>
    /\ sweepI = 0
    /\ left = 0
    /\ right = 0
    /\ speedSum = 0
    /\ speedCount = 0
    /\ AvgSpeed = <<>>

\* findPointForTime is not part of the run
FindUnused ==
    /\ findPoints = <<>>
    /\ findOffset = 0
    /\ findResult = <<>>
    /\ findPc = "unused"

\* args.From, args.To when no cut is given: a string with neither suffix
NoCut == [suffix |-> "", valid |-> FALSE, val |-> 0]

\* cutTrack is not part of the run
CutUnused ==
    /\ cutTimes = <<>>
    /\ cutDistance = <<>>
    /\ cutDebug = FALSE
    /\ From = NoCut
    /\ To = NoCut
    /\ RenderFromIndex = 0
    /\ RenderToIndex = 0
    /\ cutPc = "unused"
    /\ printed = {}
    /\ indexed = {}
    /\ windowFrames = 0

PointUnused == ZoomUnused /\ BearingUnused /\ SweepUnused /\ FindUnused /\ CutUnused

OthersUnused == RunUnused /\ RenderUnused /\ AdjustUnused /\ TrackUnused /\ PointUnused

\* the tile cache is not part of the pipeline's runs
TileUnused ==
    /\ adjustOn = FALSE
    /\ tileCache = [k \in Keys |-> NoImage]
    /\ disk = [k \in Keys |-> NoFile]
    /\ cpc = [c \in Callers |-> "idle"]
    /\ ckey = [c \in Callers |-> 1]
    /\ cimg = [c \in Callers |-> NoImage]
    /\ cret = [c \in Callers |-> NoReturn]
    /\ chist = [c \in Callers |-> NoHistory]
    /\ succeeded = [k \in Keys |-> NoImage]
    /\ tileFatal = FALSE

(***************************************************************************)
(* Init: the state on entry to runVideoPipeline                            *)
(***************************************************************************)
PipeConfig ==
    /\ Workers \in 1..MaxWorkers
    /\ Framerate \in 1..MaxFramerate
    /\ segmentHalfSeconds \in 0..MaxHalfSeconds
    /\ TotalFramesOf(segmentHalfSeconds, Framerate) <= MaxFrames

PipeStart ==
    /\ mainPc = "setup"
    /\ fatal = "none"
    /\ prodI = 0
    /\ tasks = <<>>
    /\ tasksClosed = FALSE
    /\ wpc = [w \in 1..MaxWorkers |-> "idle"]
    /\ wframe = [w \in 1..MaxWorkers |-> 0]
    /\ frameChan = <<>>
    /\ frameClosed = FALSE
    /\ writerPc = "idle"
    /\ frameBuffer = {}
    /\ nextFrameToWrite = 0
    /\ written = <<>>
    /\ elapsed = 0
    /\ sinceArrival = 0
    /\ exitStatus = "none"
    /\ encoderStarts = 0
    /\ stdinCloses = 0
    /\ pipeBroken = FALSE
    /\ failedFrames = {}
    /\ premature = FALSE

Running == fatal = "none"

(***************************************************************************)
(* runVideoPipeline, main goroutine                                        *)
(***************************************************************************)
\* StdinPipe / Start fail: log.Fatalf
StartEncoderFails ==
    /\ Running /\ mainPc = "setup"
    /\ fatal' = "start"
    /\ UNCHANGED <<outsidePipe, cfgVars, prodVars, workVars, writerVars, mainPc, frameChan,
                   frameClosed, timeVars, encoderStarts, exitStatus, pipeBroken>>

\* ffmpegCmd.Start() succeeds; the encoder goroutine is started with its timer
\* armed, then generateFrames starts the task producer and the workers
StartPipeline ==
    /\ Running /\ mainPc = "setup"
    /\ encoderStarts' = encoderStarts + 1
    /\ writerPc' = "select"
    /\ elapsed' = 0
    /\ sinceArrival' = 0
    /\ wpc' = [w \in 1..MaxWorkers |-> IF w \in WorkerIds THEN "recv" ELSE "idle"]
    /\ mainPc' = "generate"
    /\ UNCHANGED <<outsidePipe, cfgVars, prodVars, wframe, failedFrames, frameBuffer,
                   nextFrameToWrite, written, stdinCloses, premature, fatal,
                   frameChan, frameClosed, pipeBroken, exitStatus>>

\* (mutant) generateFrames returns once the tasks are used up, without
\* waiting for the workers
GenerateReturnsEarly ==
    /\ Running /\ mainPc = "generate"
    /\ tasksClosed /\ tasks = <<>>
    /\ mainPc' = "close"
    /\ UNCHANGED <<outsidePipe, cfgVars, prodVars, workVars, writerVars, fatal, frameChan,
                   frameClosed, timeVars, encoderStarts, exitStatus, pipeBroken>>

\* generateFrames returns: wg.Wait() saw every worker done
GenerateReturns ==
    /\ Running /\ mainPc = "generate"
    /\ \A w \in WorkerIds : wpc[w] = "done"
    /\ mainPc' = "close"
    /\ UNCHANGED <<outsidePipe, cfgVars, prodVars, workVars, writerVars, fatal, frameChan,
                   frameClosed, timeVars, encoderStarts, exitStatus, pipeBroken>>

\* close(frameChan)
CloseFrameChan ==
    /\ Running /\ mainPc = "close"
    /\ frameClosed' = TRUE
    /\ mainPc' = "waitWriter"
    /\ UNCHANGED <<outsidePipe, cfgVars, prodVars, workVars, writerVars, fatal, frameChan,
                   timeVars, encoderStarts, exitStatus, pipeBroken>>

\* wg.Wait() for the encoder goroutine
WriterJoined ==
    /\ Running /\ mainPc = "waitWriter"
    /\ writerPc = "done"
    /\ mainPc' = "waitEncoder"
    /\ UNCHANGED <<outsidePipe, cfgVars, prodVars, workVars, writerVars, fatal, frameChan,
                   frameClosed, timeVars, encoderStarts, exitStatus, pipeBroken>>

\* the exit status ffmpegCmd.Wait() can report: an encoder that stopped reading
\* its input exits with a non-zero status
ExitStatuses == IF pipeBroken THEN {"nonzero"} ELSE {"zero", "nonzero"}

\* (mutant) the exit status is read but a failure is not fatal
EncoderExitIgnoringStatus(status) ==
    /\ Running /\ mainPc = "waitEncoder"
    /\ mainPc' = "returned"
    /\ exitStatus' = status
    /\ UNCHANGED <<outsidePipe, cfgVars, prodVars, workVars, writerVars, frameChan, fatal,
                   frameClosed, timeVars, encoderStarts, pipeBroken>>

\* if err := ffmpegCmd.Wait(); err != nil { log.Fatalf(...) }
EncoderExit(status) ==
    /\ Running /\ mainPc = "waitEncoder"
    /\ IF status # "zero"
          THEN /\ fatal' = "ffmpeg"
               /\ mainPc' = mainPc
          ELSE /\ fatal' = fatal
               /\ mainPc' = "returned"
    /\ exitStatus' = status
    /\ UNCHANGED <<outsidePipe, cfgVars, prodVars, workVars, writerVars, frameChan,
                   frameClosed, timeVars, encoderStarts, pipeBroken>>

EncoderWait == \E status \in ExitStatuses : EncoderExit(status)

(***************************************************************************)
(* generateFrames: the task producer goroutine                             *)
(***************************************************************************)
\* tasks <- i
ProducerSend ==
    /\ Running /\ mainPc = "generate"
    /\ prodI < totalFrames
    /\ Len(tasks) < TasksCap
    /\ tasks' = Append(tasks, prodI)
    /\ prodI' = prodI + 1
    /\ UNCHANGED <<outsidePipe, cfgVars, tasksClosed, workVars, writerVars, mainPc, fatal,
                   frameChan, frameClosed, timeVars, encoderStarts, exitStatus, pipeBroken>>

\* close(tasks)
ProducerClose ==
    /\ Running /\ mainPc = "generate"
    /\ prodI >= totalFrames
    /\ ~tasksClosed
    /\ tasksClosed' = TRUE
    /\ UNCHANGED <<outsidePipe, cfgVars, prodI, tasks, workVars, writerVars, mainPc, fatal,
                   frameChan, frameClosed, timeVars, encoderStarts, exitStatus, pipeBroken>>

(***************************************************************************)
(* generateFrames: a worker goroutine                                      *)
(***************************************************************************)
\* for frameNum := range tasks
WorkerTake(w) ==
    /\ Running /\ wpc[w] = "recv"
    /\ tasks # <<>>
    /\ wframe' = [wframe EXCEPT ![w] = Head(tasks)]
    /\ tasks' = Tail(tasks)
    /\ wpc' = [wpc EXCEPT ![w] = "render"]
    /\ UNCHANGED <<outsidePipe, cfgVars, prodI, tasksClosed, failedFrames, writerVars, mainPc,
                   fatal, frameChan, frameClosed, timeVars, encoderStarts, exitStatus, pipeBroken>>

\* the range loop ends on the closed, drained channel; defer wg.Done()
WorkerExit(w) ==
    /\ Running /\ wpc[w] = "recv"
    /\ tasks = <<>> /\ tasksClosed
    /\ wpc' = [wpc EXCEPT ![w] = "done"]
    /\ UNCHANGED <<outsidePipe, cfgVars, prodVars, wframe, failedFrames, writerVars, mainPc,
                   fatal, frameChan, frameClosed, timeVars, encoderStarts, exitStatus, pipeBroken>>

\* what the worker does after a failed png.Encode: log and continue
AfterEncodeFailure == "recv"

\* renderFrame + png.Encode: the frame is encoded, or png.Encode fails, or a
\* tile download inside renderFrame times out (log.Fatalf in getTileImage)
RenderOutcomes == {"ok", "encodeError", "tileTimeout"}

WorkerRender(w, outcome) ==
    /\ Running /\ wpc[w] = "render"
    /\ CASE outcome = "ok" ->
              /\ wpc' = [wpc EXCEPT ![w] = "send"]
              /\ UNCHANGED <<failedFrames, fatal>>
         [] outcome = "encodeError" ->
              /\ wpc' = [wpc EXCEPT ![w] = AfterEncodeFailure]
              /\ failedFrames' = failedFrames \cup {wframe[w]}
              /\ UNCHANGED fatal
         [] outcome = "tileTimeout" ->
              /\ fatal' = "tileTimeout"
              /\ UNCHANGED <<wpc, failedFrames>>
    /\ UNCHANGED <<outsidePipe, cfgVars, prodVars, wframe, writerVars, mainPc, frameChan,
                   frameClosed, timeVars, encoderStarts, exitStatus, pipeBroken>>

\* frameChan <- Frame{Number: frameNum, Data: frameData}
\* (a send on a closed channel panics)
WorkerSend(w) ==
    /\ Running /\ wpc[w] = "send"
    /\ IF frameClosed
          THEN /\ fatal' = "panic"
               /\ UNCHANGED <<frameChan, wpc>>
          ELSE /\ Len(frameChan) < FrameChanCap
               /\ frameChan' = Append(frameChan, wframe[w])
               /\ wpc' = [wpc EXCEPT ![w] = "recv"]
               /\ UNCHANGED fatal
    /\ UNCHANGED <<outsidePipe, cfgVars, prodVars, wframe, failedFrames, writerVars, mainPc,
                   frameClosed, timeVars, encoderStarts, exitStatus, pipeBroken>>

(***************************************************************************)
(* runVideoPipeline: the encoder goroutine                                 *)
(***************************************************************************)
\* (mutant) the flush loop writes the lowest frame it holds, expected or not
FlushKeyLowestBuffered ==
    IF frameBuffer = {} THEN nextFrameToWrite
    ELSE CHOOSE k \in frameBuffer : \A j \in frameBuffer : k <= j

\* the key looked up in frameBuffer by the flush loop
FlushKey == nextFrameToWrite

\* (mutant) the timer is re-armed only by the frame the writer is waiting for
ElapsedAfterInOrderArrival(n) == IF n = nextFrameToWrite THEN 0 ELSE elapsed

\* timeout.Stop(); timeout.Reset(frameWaitTimeout): seconds on the timer's
\* clock after a frame with number n arrived (Stop reports true for a timer
\* whose value was not received, so the drain <-timeout.C never blocks)
ElapsedAfterArrival(n) == 0

\* the timer's channel is ready
TimerExpired == elapsed >= frameWaitTimeout

\* case frame, ok := <-frameChan (ok): store, re-arm the timer, go flush
WriterRecv ==
    /\ Running /\ writerPc = "select"
    /\ nextFrameToWrite < totalFrames
    /\ frameChan # <<>>
    /\ frameBuffer' = frameBuffer \cup {Head(frameChan)}
    /\ frameChan' = Tail(frameChan)
    /\ elapsed' = ElapsedAfterArrival(Head(frameChan))
    /\ sinceArrival' = 0
    /\ writerPc' = "flush"
    /\ UNCHANGED <<outsidePipe, cfgVars, prodVars, workVars, nextFrameToWrite, written,
                   stdinCloses, premature, mainPc, fatal, frameClosed,
                   encoderStarts, exitStatus, pipeBroken>>

\* one turn of the flush loop with the frame found: ffmpegIn.Write(data) (an
\* error is logged only), delete(frameBuffer, ...), nextFrameToWrite++
WriterWrite ==
    /\ Running /\ writerPc = "flush"
    /\ FlushKey \in frameBuffer
    /\ written' = IF pipeBroken THEN written ELSE Append(written, FlushKey)
    /\ frameBuffer' = frameBuffer \ {FlushKey}
    /\ nextFrameToWrite' = nextFrameToWrite + 1
    /\ UNCHANGED <<outsidePipe, cfgVars, prodVars, workVars, writerPc, stdinCloses, premature,
                   mainPc, fatal, frameChan, frameClosed, timeVars, encoderStarts, exitStatus,
                   pipeBroken>>

\* (mutant) the flush is an if, not a loop: it ends after any number of frames
WriterFlushEndAnytime ==
    /\ Running /\ writerPc = "flush"
    /\ writerPc' = "select"
    /\ UNCHANGED <<outsidePipe, cfgVars, prodVars, workVars, frameBuffer, nextFrameToWrite,
                   written, stdinCloses, premature, mainPc, fatal, frameChan,
                   frameClosed, timeVars, encoderStarts, exitStatus, pipeBroken>>

\* the flush loop breaks: the frame is not in frameBuffer
WriterFlushEnd ==
    /\ Running /\ writerPc = "flush"
    /\ FlushKey \notin frameBuffer
    /\ writerPc' = "select"
    /\ UNCHANGED <<outsidePipe, cfgVars, prodVars, workVars, frameBuffer, nextFrameToWrite,
                   written, stdinCloses, premature, mainPc, fatal, frameChan,
                   frameClosed, timeVars, encoderStarts, exitStatus, pipeBroken>>

\* case frame, ok := <-frameChan (!ok): log, return; defer ffmpegIn.Close()
WriterChannelClosed ==
    /\ Running /\ writerPc = "select"
    /\ nextFrameToWrite < totalFrames
    /\ frameChan = <<>> /\ frameClosed
    /\ premature' = TRUE
    /\ stdinCloses' = stdinCloses + 1
    /\ writerPc' = "done"
    /\ UNCHANGED <<outsidePipe, cfgVars, prodVars, workVars, frameBuffer, nextFrameToWrite,
                   written, mainPc, fatal, frameChan, frameClosed, timeVars,
                   encoderStarts, exitStatus, pipeBroken>>

\* case <-timeout.C: log.Fatalf
WriterTimeout ==
    /\ Running /\ writerPc = "select"
    /\ nextFrameToWrite < totalFrames
    /\ TimerExpired
    /\ fatal' = "timeout"
    /\ UNCHANGED <<outsidePipe, cfgVars, prodVars, workVars, writerVars, mainPc, frameChan,
                   frameClosed, timeVars, encoderStarts, exitStatus, pipeBroken>>

\* the loop condition nextFrameToWrite < totalFrames fails: return;
\* defer ffmpegIn.Close()
WriterReturn ==
    /\ Running /\ writerPc = "select"
    /\ nextFrameToWrite >= totalFrames
    /\ stdinCloses' = stdinCloses + 1
    /\ writerPc' = "done"
    /\ UNCHANGED <<outsidePipe, cfgVars, prodVars, workVars, frameBuffer, nextFrameToWrite,
                   written, premature, mainPc, fatal, frameChan, frameClosed,
                   timeVars, encoderStarts, exitStatus, pipeBroken>>

(***************************************************************************)
(* The environment: time, and the encoder process                          *)
(***************************************************************************)
\* TickStep seconds pass while the encoder goroutine runs (the clock is kept
\* up to the timer's expiry only)
Tick ==
    /\ Running /\ writerPc \in {"select", "flush"}
    /\ ~TimerExpired
    /\ elapsed' = Min(elapsed + TickStep, frameWaitTimeout)
    /\ sinceArrival' = Min(sinceArrival + TickStep, frameWaitTimeout)
    /\ UNCHANGED <<outsidePipe, cfgVars, prodVars, workVars, writerVars, mainPc, fatal,
                   frameChan, frameClosed, encoderStarts, exitStatus, pipeBroken>>

\* the encoder process stops reading its stdin (it crashed or exited early):
\* every later ffmpegIn.Write fails
EncoderDies ==
    /\ Running /\ encoderStarts > 0
    /\ stdinCloses = 0
    /\ ~pipeBroken
    /\ pipeBroken' = TRUE
    /\ UNCHANGED <<outsidePipe, cfgVars, prodVars, workVars, writerVars, mainPc, fatal,
                   frameChan, frameClosed, timeVars, encoderStarts, exitStatus>>

(***************************************************************************)
(* Specification of the pipeline                                           *)
(***************************************************************************)
vars == <<pipeVars, tileVars, prefetchVars, otherVars>>

Init == PipeConfig /\ PipeStart /\ TileUnused /\ PrefetchUnused /\ OthersUnused

MainStep ==
    \/ StartEncoderFails
    \/ StartPipeline
    \/ GenerateReturns
    \/ CloseFrameChan
    \/ WriterJoined
    \/ EncoderWait

ProducerStep == ProducerSend \/ ProducerClose

WorkerStep(w) ==
    \/ WorkerTake(w)
    \/ WorkerExit(w)
    \/ \E outcome \in RenderOutcomes : WorkerRender(w, outcome)
    \/ WorkerSend(w)

WriterStep ==
    \/ WriterRecv
    \/ WriterWrite
    \/ WriterFlushEnd
    \/ WriterChannelClosed
    \/ WriterTimeout
    \/ WriterReturn

Next ==
    \/ MainStep
    \/ ProducerStep
    \/ \E w \in WorkerIds : WorkerStep(w)
    \/ WriterStep
    \/ Tick
    \/ EncoderDies

Spec == Init /\ [][Next]_vars

(***************************************************************************)
(* A run long enough to fill every bounded buffer of the pipeline: two     *)
(* workers, 1 fps, and two frames more than the task channel, the frame    *)
(* channel and the workers hold together; nothing fails and the watchdog   *)
(* stays quiet.                                                            *)
(***************************************************************************)
LongRunInit ==
    /\ Workers = 2
    /\ Framerate = 1
    /\ segmentHalfSeconds = 2 * (TasksCap + FrameChanCap + Workers + 2)
    /\ PipeStart
    /\ TileUnused
    /\ PrefetchUnused
    /\ OthersUnused

LongRunNext ==
    \/ StartPipeline
    \/ GenerateReturns
    \/ CloseFrameChan
    \/ WriterJoined
    \/ EncoderExit("zero")
    \/ ProducerSend
    \/ ProducerClose
    \/ \E w \in WorkerIds :
          \/ WorkerTake(w)
          \/ WorkerExit(w)
          \/ WorkerRender(w, "ok")
          \/ WorkerSend(w)
    \/ WriterRecv
    \/ WriterWrite
    \/ WriterFlushEnd
    \/ WriterReturn

LongRunSpec == LongRunInit /\ [][LongRunNext]_vars

(***************************************************************************)
(* The pipeline in a nominal environment, with the scheduler's fairness:   *)
(* no frame fails, the encoder starts, reads its input and exits with      *)
(* status 0, and time passes only short of the watchdog's interval.  Every *)
(* goroutine that can take a step eventually takes one.                    *)
(***************************************************************************)
NominalTick == Tick /\ elapsed' < frameWaitTimeout

NominalMain ==
    \/ StartPipeline
    \/ GenerateReturns
    \/ CloseFrameChan
    \/ WriterJoined
    \/ EncoderExit("zero")

NominalWorker(w) ==
    \/ WorkerTake(w)
    \/ WorkerExit(w)
    \/ WorkerRender(w, "ok")
    \/ WorkerSend(w)

\* (the writer's other two select outcomes, the closed channel and the
\* timeout, do not occur in a nominal run: were one of them the only step
\* open to the writer, the run would stop short of RunComplete)
NominalWriter ==
    \/ WriterRecv
    \/ WriterWrite
    \/ WriterFlushEnd
    \/ WriterReturn

NominalNext ==
    \/ NominalMain
    \/ ProducerStep
    \/ \E w \in WorkerIds : NominalWorker(w)
    \/ NominalWriter
    \/ NominalTick

NominalSpec ==
    /\ Init
    /\ [][NominalNext]_vars
    /\ WF_vars(NominalMain)
    /\ WF_vars(ProducerStep)
    /\ \A w \in 1..MaxWorkers : WF_vars(NominalWorker(w))
    /\ WF_vars(NominalWriter)

(***************************************************************************)
(* getTileImage(style, z, x, y, args), called by concurrent goroutines.    *)
(* The style is a known one; a key stands for the call's tilePath.  Every  *)
(* cache lookup, file operation and the download is a step of its own.     *)
(***************************************************************************)
TileRunning == ~tileFatal

\* return img, nil / return nil, err: the call's locals are gone
Returns(c, status, img) ==
    /\ cpc' = [cpc EXCEPT ![c] = "idle"]
    /\ cret' = [cret EXCEPT ![c] = [status |-> status, img |-> img,
                                     late |-> chist[c].late]]
    /\ ckey' = [ckey EXCEPT ![c] = 1]
    /\ cimg' = [cimg EXCEPT ![c] = NoImage]
    /\ chist' = [chist EXCEPT ![c] = NoHistory]
    /\ succeeded' = IF status = "ok" /\ succeeded[ckey[c]] = NoImage
                       THEN [succeeded EXCEPT ![ckey[c]] = img]
                       ELSE succeeded

\* a goroutine calls getTileImage for key k
CallStart(c, k) ==
    /\ TileRunning /\ cpc[c] = "idle"
    /\ cpc' = [cpc EXCEPT ![c] = "load"]
    /\ ckey' = [ckey EXCEPT ![c] = k]
    /\ cret' = [cret EXCEPT ![c] = NoReturn]
    /\ chist' = [chist EXCEPT ![c] =
                    [NoHistory EXCEPT !.late = (succeeded[k] # NoImage)]]
    /\ UNCHANGED <<outsideTile, adjustOn, tileCache, disk, cimg, succeeded,
                   tileFatal>>

\* (mutant) a memory miss goes straight to the network
AfterMemoryMissDownload == "download"

\* where a call goes after tileCache.Load missed
AfterMemoryMiss == "stat"

\* if img, ok := tileCache.Load(tilePath); ok { return img, nil }
MemoryLookup(c) ==
    /\ TileRunning /\ cpc[c] = "load"
    /\ IF tileCache[ckey[c]] # NoImage
          THEN Returns(c, "ok", tileCache[ckey[c]])
          ELSE /\ cpc' = [cpc EXCEPT ![c] = AfterMemoryMiss]
               /\ chist' = [chist EXCEPT ![c].memMiss = TRUE]
               /\ UNCHANGED <<cret, ckey, cimg, succeeded>>
    /\ UNCHANGED <<outsideTile, adjustOn, tileCache, disk, tileFatal>>

\* if _, err := os.Stat(tilePath); err == nil { ... }
DiskStat(c) ==
    /\ TileRunning /\ cpc[c] = "stat"
    /\ IF disk[ckey[c]].state # "absent"
          THEN /\ cpc' = [cpc EXCEPT ![c] = "open"]
               /\ chist' = [chist EXCEPT ![c].stat = "hit"]
          ELSE /\ cpc' = [cpc EXCEPT ![c] = "download"]
               /\ chist' = [chist EXCEPT ![c].stat = "miss"]
    /\ UNCHANGED <<outsideTile, adjustOn, tileCache, disk, ckey, cimg, cret,
                   succeeded, tileFatal>>

\* file, err := os.Open(tilePath); if err != nil { return nil, err }
DiskOpen(c, outcome) ==
    /\ TileRunning /\ cpc[c] = "open"
    /\ IF outcome = "ok"
          THEN /\ cpc' = [cpc EXCEPT ![c] = "decode"]
               /\ UNCHANGED <<cret, ckey, cimg, chist, succeeded>>
          ELSE Returns(c, "openError", NoImage)
    /\ UNCHANGED <<outsideTile, adjustOn, tileCache, disk, tileFatal>>

\* (mutant) the bitmap read from disk is cached without the adjustment
DiskImageUnadjusted(file) == Decoded(file)

\* img after image.Decode(file) and adjustBrightnessContrast
DiskImage(file) == Adjusted(Decoded(file))

\* img, _, err := image.Decode(file); if err != nil { return nil, err }
DiskDecode(c) ==
    /\ TileRunning /\ cpc[c] = "decode"
    /\ IF Decodable(disk[ckey[c]])
          THEN /\ cimg' = [cimg EXCEPT ![c] = DiskImage(disk[ckey[c]])]
               /\ cpc' = [cpc EXCEPT ![c] = "diskStore"]
               /\ UNCHANGED <<cret, ckey, chist, succeeded>>
          ELSE Returns(c, "decodeError", NoImage)
    /\ UNCHANGED <<outsideTile, adjustOn, tileCache, disk, tileFatal>>

\* tileCache.Store(tilePath, img); return img, nil  (the disk path)
DiskPromote(c) ==
    /\ TileRunning /\ cpc[c] = "diskStore"
    /\ tileCache' = [tileCache EXCEPT ![ckey[c]] = cimg[c]]
    /\ Returns(c, "ok", cimg[c])
    /\ UNCHANGED <<outsideTile, adjustOn, disk, tileFatal>>

\* client.Do(req), the status checks and image.Decode(resp.Body): a bitmap,
\* an error returned to the caller, or a timeout (log.Fatalf)
DownloadOutcomes == {"ok", "error", "timeout"}

Download(c, outcome) ==
    /\ TileRunning /\ cpc[c] = "download"
    /\ CASE outcome = "ok" ->
              /\ cimg' = [cimg EXCEPT ![c] = Pixels(ckey[c])]
              /\ cpc' = [cpc EXCEPT ![c] = "create"]
              /\ chist' = [chist EXCEPT ![c].net = TRUE]
              /\ UNCHANGED <<cret, ckey, succeeded, tileFatal>>
         [] outcome = "error" ->
              /\ Returns(c, "downloadError", NoImage)
              /\ UNCHANGED tileFatal
         [] outcome = "timeout" ->
              /\ tileFatal' = TRUE
              /\ chist' = [chist EXCEPT ![c].net = TRUE]
              /\ UNCHANGED <<cimg, cpc, cret, ckey, succeeded>>
    /\ UNCHANGED <<outsideTile, adjustOn, tileCache, disk>>

\* os.MkdirAll(...); out, err := os.Create(tilePath): the file is truncated
DiskCreate(c, outcome) ==
    /\ TileRunning /\ cpc[c] = "create"
    /\ IF outcome = "ok"
          THEN /\ disk' = [disk EXCEPT ![ckey[c]] = EmptyFile]
               /\ cpc' = [cpc EXCEPT ![c] = "write"]
               /\ UNCHANGED <<cret, ckey, cimg, chist, succeeded>>
          ELSE /\ Returns(c, "createError", NoImage)
               /\ UNCHANGED disk
    /\ UNCHANGED <<outsideTile, adjustOn, tileCache, tileFatal>>

\* png.Encode(buf, img) (an error is returned); out.Write(buf.Bytes());
\* adjustBrightnessContrast
DiskWrite(c, outcome) ==
    /\ TileRunning /\ cpc[c] = "write"
    /\ IF outcome = "ok"
          THEN /\ disk' = [disk EXCEPT ![ckey[c]] = PngFile(cimg[c])]
               /\ cimg' = [cimg EXCEPT ![c] = Adjusted(cimg[c])]
               /\ chist' = [chist EXCEPT ![c].wrote = TRUE]
               /\ cpc' = [cpc EXCEPT ![c] = "store"]
               /\ UNCHANGED <<cret, ckey, succeeded>>
          ELSE /\ Returns(c, "encodeError", NoImage)
               /\ UNCHANGED disk
    /\ UNCHANGED <<outsideTile, adjustOn, tileCache, tileFatal>>

\* tileCache.Store(tilePath, img); return img, nil  (the download path)
MemoryStore(c) ==
    /\ TileRunning /\ cpc[c] = "store"
    /\ tileCache' = [tileCache EXCEPT ![ckey[c]] = cimg[c]]
    /\ Returns(c, "ok", cimg[c])
    /\ UNCHANGED <<outsideTile, adjustOn, disk, tileFatal>>

\* the errors a call returns because the network or the file system failed
EnvironmentErrors == {"openError", "downloadError", "createError", "encodeError"}

\* the pipeline is not part of the tile cache's runs
PipeUnused ==
    /\ Workers = 1
    /\ Framerate = 1
    /\ segmentHalfSeconds = 0
    /\ PipeStart

\* the caches at the start: the memory cache is empty; a tile's file is
\* missing or was written whole by an earlier run
TileInit ==
    /\ PipeUnused
    /\ PrefetchUnused
    /\ OthersUnused
    /\ adjustOn \in BOOLEAN
    /\ tileCache = [k \in Keys |-> NoImage]
    /\ disk \in [Keys -> {NoFile} \cup {PngFile(Pixels(k)) : k \in Keys}]
    /\ \A k \in Keys : disk[k] \in {NoFile, PngFile(Pixels(k))}
    /\ cpc = [c \in Callers |-> "idle"]
    /\ ckey = [c \in Callers |-> 1]
    /\ cimg = [c \in Callers |-> NoImage]
    /\ cret = [c \in Callers |-> NoReturn]
    /\ chist = [c \in Callers |-> NoHistory]
    /\ succeeded = [k \in Keys |-> NoImage]
    /\ tileFatal = FALSE

FileOutcomes == {"ok", "fail"}

TileNext ==
    \/ \E c \in Callers, k \in Keys : CallStart(c, k)
    \/ \E c \in Callers : MemoryLookup(c)
    \/ \E c \in Callers : DiskStat(c)
    \/ \E c \in Callers, outcome \in FileOutcomes : DiskOpen(c, outcome)
    \/ \E c \in Callers : DiskDecode(c)
    \/ \E c \in Callers : DiskPromote(c)
    \/ \E c \in Callers, outcome \in DownloadOutcomes : Download(c, outcome)
    \/ \E c \in Callers, outcome \in FileOutcomes : DiskCreate(c, outcome)
    \/ \E c \in Callers, outcome \in FileOutcomes : DiskWrite(c, outcome)
    \/ \E c \in Callers : MemoryStore(c)

TileSpec == TileInit /\ [][TileNext]_vars

(***************************************************************************)
(* prefetchTiles(allTiles, args): one goroutine per tile, at most          *)
(* tileFetchConcurrency of them between limit <- struct{}{} and <-limit.   *)
(* The range over the map allTiles visits the tiles in any order.          *)
(***************************************************************************)
\* (mutant) a channel with room for one more token
LimitCapPlusOne == tileFetchConcurrency + 1

\* limit := make(chan struct{}, tileFetchConcurrency)
LimitCap == tileFetchConcurrency

\* tiles whose goroutine is inside getTileImage (or about to enter it)
Fetching == {t \in Tiles : ptile[t] = "fetching"}

\* tiles whose getTileImage call has returned
Attempted == {t \in Tiles : ptile[t] \in {"sleeping", "done"}}

\* for tile := range allTiles { wg.Add(1); limit <- struct{}{}; go func... }
\* the send blocks while the channel is full
Spawn(t) ==
    /\ prefetchPc = "loop" /\ ptile[t] = "pending"
    /\ limit < LimitCap
    /\ wg' = wg + 1
    /\ limit' = limit + 1
    /\ ptile' = [ptile EXCEPT ![t] = "fetching"]
    /\ UNCHANGED <<outsidePrefetch, prefetchPc>>

\* the range is exhausted: prefetchTiles moves on to wg.Wait()
LoopEnd ==
    /\ prefetchPc = "loop"
    /\ \A t \in Tiles : ptile[t] # "pending"
    /\ prefetchPc' = "wait"
    /\ UNCHANGED <<outsidePrefetch, ptile, limit, wg>>

\* what getTileImage does for the goroutine: a bitmap or an error (both
\* ignored), or log.Fatalf on a download timeout
FetchOutcomes == {"ok", "error", "timeout"}

\* getTileImage(...) returns; bar.Add(1); <-limit
\* on a timeout the process exits and every goroutine with it
FetchReturns(t, outcome) ==
    /\ prefetchPc \in {"loop", "wait"} /\ ptile[t] = "fetching"
    /\ IF outcome = "timeout"
          THEN /\ prefetchPc' = "exited"
               /\ ptile' = [u \in Tiles |-> "killed"]
               /\ limit' = 0
               /\ wg' = 0
          ELSE /\ limit' = limit - 1
               /\ ptile' = [ptile EXCEPT ![t] = "sleeping"]
               /\ UNCHANGED <<prefetchPc, wg>>
    /\ UNCHANGED outsidePrefetch

\* time.Sleep(time.Second / 20) is over; the deferred wg.Done() runs
SleepEnd(t) ==
    /\ prefetchPc \in {"loop", "wait"} /\ ptile[t] = "sleeping"
    /\ ptile' = [ptile EXCEPT ![t] = "done"]
    /\ wg' = wg - 1
    /\ UNCHANGED <<outsidePrefetch, prefetchPc, limit>>

\* wg.Wait() returns once the counter is zero
WaitReturns ==
    /\ prefetchPc = "wait" /\ wg = 0
    /\ prefetchPc' = "returned"
    /\ UNCHANGED <<outsidePrefetch, ptile, limit, wg>>

PrefetchInit ==
    /\ PipeUnused
    /\ TileUnused
    /\ OthersUnused
    /\ prefetchPc = "loop"
    /\ ptile = [t \in Tiles |-> "pending"]
    /\ limit = 0
    /\ wg = 0

PrefetchNext ==
    \/ \E t \in Tiles : Spawn(t)
    \/ LoopEnd
    \/ \E t \in Tiles, outcome \in FetchOutcomes : FetchReturns(t, outcome)
    \/ \E t \in Tiles : SleepEnd(t)
    \/ WaitReturns

PrefetchSpec == PrefetchInit /\ [][PrefetchNext]_vars

(***************************************************************************)
(* main(): parse the GPX file, preprocess the track (which reads the       *)
(* adjustment file), prefetch the tiles, build the scaled-tile cache,      *)
(* render.  getTileImage is one step here; the set of tiles is RunTiles.   *)
(***************************************************************************)
RunTiles == 1..NumRunTiles
RunFrames == 1..NumRunFrames

\* scale 0 stands for a residual scale within 0.01 of 1.0 (never pre-scaled)
ScaleGrid == 0..NumScales

\* args.TrackAdjustmentFile: no file given, a file os.ReadFile cannot read, a
\* line of one field, a scale or duration ParseFloat rejects, a field that is
\* neither scale= nor duration=, a line with no scale=, a well-formed file
AdjFiles == {"none", "unreadable", "shortLine", "badScale", "badDuration",
             "unknownParam", "noScale", "ok"}

\* (mutant) a line without scale= is accepted
ParseFailsExceptNoScale(file) == file \notin {"none", "ok", "noScale"}

\* parseTrackAdjustmentFile returns an error
ParseFails(file) == file \notin {"none", "ok"}

RunGoing == runFatal = "none"

\* points, err := parseGpx(args.GpxFile); if len(points) < 2 { log.Fatal }
ParseGpx ==
    /\ RunGoing /\ runPc = "parseGpx"
    /\ IF gpxPoints < 0 THEN runFatal' = "gpx" /\ UNCHANGED runPc
       ELSE IF gpxPoints < 2 THEN runFatal' = "points" /\ UNCHANGED runPc
       ELSE runPc' = "preprocess" /\ UNCHANGED runFatal
    /\ UNCHANGED <<outsideRun, args, gpxPoints, adjFile, adjScales, style2x, prefetched,
                   runCache, mismatch, scaleCur, scaleDone, scaleTiles, scaledTileCache,
                   rendered, blank, encoderStarted>>

\* what applyTrackAdjustments does with the parsed directives: the series,
\* an error for a point spec it cannot parse, or a run-time panic
ApplyOutcomes == {"ok", "error", "panic"}

\* where main goes after the track is prepared
AfterPreprocess == IF args.Debug THEN "done" ELSE "prefetch"

\* preprocessGpxPoints: parseTrackAdjustmentFile and applyTrackAdjustments,
\* log.Fatalf on either error; then cutTrack and the Debug listing
Preprocess(outcome) ==
    /\ RunGoing /\ runPc = "preprocess"
    /\ (adjFile # "ok" \/ adjScales = {}) => outcome = "ok"
    /\ IF ParseFails(adjFile) THEN runFatal' = adjFile /\ UNCHANGED runPc
       ELSE IF outcome = "error" THEN runFatal' = "applyAdjustments" /\ UNCHANGED runPc
       ELSE IF outcome = "panic" THEN runFatal' = "panic" /\ UNCHANGED runPc
       ELSE runPc' = AfterPreprocess /\ UNCHANGED runFatal
    /\ UNCHANGED <<outsideRun, args, gpxPoints, adjFile, adjScales, style2x, prefetched,
                   runCache, mismatch, scaleCur, scaleDone, scaleTiles, scaledTileCache,
                   rendered, blank, encoderStarted>>

\* what a getTileImage call can do for tile t: a hit in tileCache; otherwise
\* a download that fails, times out, or yields a bitmap, which in 2x mode is
\* rejected when the style serves no 512x512 tiles
TileOutcomes(t) ==
    IF t \in runCache THEN {"ok"}
    ELSE IF args.Is2x /\ ~style2x THEN {"sizeError", "error", "timeout"}
    ELSE {"ok", "error", "timeout"}

\* the effect of one getTileImage call on the caches and on the process
GetTile(t, outcome) ==
    /\ outcome \in TileOutcomes(t)
    /\ runCache' = IF outcome = "ok" THEN runCache \cup {t} ELSE runCache
    /\ mismatch' = (mismatch \/ outcome = "sizeError")
    /\ runFatal' = IF outcome = "timeout" THEN "tileTimeout" ELSE runFatal

\* prefetchTiles: getTileImage for every tile, its result ignored
PrefetchTile(t, outcome) ==
    /\ RunGoing /\ runPc = "prefetch" /\ t \in RunTiles \ prefetched
    /\ GetTile(t, outcome)
    /\ prefetched' = prefetched \cup {t}
    /\ UNCHANGED <<outsideRun, args, gpxPoints, adjFile, adjScales, style2x, runPc,
                   scaleCur, scaleDone, scaleTiles, scaledTileCache, rendered, blank,
                   encoderStarted>>

\* prefetchTiles returns; adjSpecs, err := parseTrackAdjustmentFile(...);
\* if adjSpecs != nil { cacheScaledTiles(uniqueScales, ...) }
PrefetchReturns ==
    /\ RunGoing /\ runPc = "prefetch" /\ prefetched = RunTiles
    /\ IF ParseFails(adjFile) THEN runFatal' = adjFile /\ UNCHANGED runPc
       ELSE /\ runPc' = IF adjScales # {} THEN "scale" ELSE "render"
            /\ UNCHANGED runFatal
    /\ UNCHANGED <<outsideRun, args, gpxPoints, adjFile, adjScales, style2x, prefetched,
                   runCache, mismatch, scaleCur, scaleDone, scaleTiles, scaledTileCache,
                   rendered, blank, encoderStarted>>

\* cacheScaledTiles, outer loop: the next scale; skipped when its scaling
\* factor is within 0.01 of 1, otherwise its map is created
ScaleNext(k) ==
    /\ RunGoing /\ runPc = "scale" /\ scaleCur = -1
    /\ k \in adjScales \ scaleDone
    /\ IF k = 0
          THEN scaleDone' = scaleDone \cup {k} /\ UNCHANGED scaleCur
          ELSE scaleCur' = k /\ UNCHANGED scaleDone
    /\ scaleTiles' = {}
    /\ UNCHANGED <<outsideRun, args, gpxPoints, adjFile, adjScales, style2x, runPc,
                   runFatal, prefetched, runCache, mismatch, scaledTileCache, rendered,
                   blank, encoderStarted>>

\* cacheScaledTiles, inner loop: getTileImage; on an error log and continue,
\* otherwise scaledTileCache[scaleKey][tile] = scaledImg
ScaleTile(t, outcome) ==
    /\ RunGoing /\ runPc = "scale" /\ scaleCur # -1
    /\ t \in RunTiles \ scaleTiles
    /\ GetTile(t, outcome)
    /\ scaleTiles' = scaleTiles \cup {t}
    /\ scaledTileCache' = IF outcome = "ok"
                             THEN scaledTileCache \cup {<<scaleCur, t>>}
                             ELSE scaledTileCache
    /\ UNCHANGED <<outsideRun, args, gpxPoints, adjFile, adjScales, style2x, runPc,
                   prefetched, scaleCur, scaleDone, rendered, blank, encoderStarted>>

\* cacheScaledTiles, inner loop ends
ScaleEnd ==
    /\ RunGoing /\ runPc = "scale" /\ scaleCur # -1 /\ scaleTiles = RunTiles
    /\ scaleDone' = scaleDone \cup {scaleCur}
    /\ scaleCur' = -1
    /\ scaleTiles' = {}
    /\ UNCHANGED <<outsideRun, args, gpxPoints, adjFile, adjScales, style2x, runPc,
                   runFatal, prefetched, runCache, mismatch, scaledTileCache, rendered,
                   blank, encoderStarted>>

\* (mutant) main goes on to render while scales are still to be built
ScalingCompleteEarly == scaleCur = -1

\* cacheScaledTiles has visited every scale
ScalingComplete == scaleCur = -1 /\ scaleDone = adjScales

\* cacheScaledTiles returns to main
ScaleReturns ==
    /\ RunGoing /\ runPc = "scale" /\ ScalingComplete
    /\ runPc' = "render"
    /\ UNCHANGED <<outsideRun, args, gpxPoints, adjFile, adjScales, style2x, runFatal,
                   prefetched, runCache, mismatch, scaleCur, scaleDone, scaleTiles,
                   scaledTileCache, rendered, blank, encoderStarted>>

\* if args.RenderFirstFrame { renderFrame; return }; runVideoPipeline(...)
StartRender ==
    /\ RunGoing /\ runPc = "render"
    /\ IF args.RenderFirstFrame
          THEN runPc' = "firstFrame" /\ UNCHANGED encoderStarted
          ELSE runPc' = "pipeline" /\ encoderStarted' = TRUE
    /\ UNCHANGED <<outsideRun, args, gpxPoints, adjFile, adjScales, style2x, runFatal,
                   prefetched, runCache, mismatch, scaleCur, scaleDone, scaleTiles,
                   scaledTileCache, rendered, blank>>

\* frames still to render
FramesLeft == IF runPc = "firstFrame" THEN {1} \ rendered ELSE RunFrames \ rendered

\* renderFrame for frame f, whose widget shows tile t.  The cached path reads
\* scaledTileCache[scaleKey][tile]; the dynamic path calls getTileImage, logs
\* an error and draws nothing for that tile
RenderFrame(f, t, k, outcome) ==
    /\ RunGoing /\ runPc \in {"firstFrame", "pipeline"} /\ f \in FramesLeft
    /\ IF k \in {key[1] : key \in scaledTileCache} \cup (scaleDone \ {0})
          THEN /\ outcome = "ok"
               /\ blank' = IF <<k, t>> \in scaledTileCache THEN blank ELSE blank \cup {f}
               /\ UNCHANGED <<runCache, mismatch, runFatal>>
          ELSE /\ k = 0
               /\ GetTile(t, outcome)
               /\ blank' = IF outcome = "ok" THEN blank ELSE blank \cup {f}
    /\ rendered' = IF outcome = "timeout" THEN rendered ELSE rendered \cup {f}
    /\ UNCHANGED <<outsideRun, args, gpxPoints, adjFile, adjScales, style2x, runPc,
                   prefetched, scaleCur, scaleDone, scaleTiles, scaledTileCache,
                   encoderStarted>>

\* the last frame is rendered: main returns
RenderDone ==
    /\ RunGoing /\ runPc \in {"firstFrame", "pipeline"} /\ FramesLeft = {}
    /\ runPc' = "done"
    /\ UNCHANGED <<outsideRun, args, gpxPoints, adjFile, adjScales, style2x, runFatal,
                   prefetched, runCache, mismatch, scaleCur, scaleDone, scaleTiles,
                   scaledTileCache, rendered, blank, encoderStarted>>

TileCallOutcomes == {"ok", "sizeError", "error", "timeout"}

RunInit ==
    /\ PipeUnused
    /\ PointUnused
    /\ TileUnused
    /\ PrefetchUnused
    /\ RenderUnused
    /\ AdjustUnused
    /\ TrackUnused
    /\ args \in [Is2x : BOOLEAN, RenderFirstFrame : BOOLEAN, Debug : BOOLEAN]
    /\ gpxPoints \in -1..MaxPoints
    /\ adjFile \in AdjFiles
    /\ adjScales \in SUBSET ScaleGrid
    /\ adjFile # "ok" => adjScales = {}
    /\ style2x \in BOOLEAN
    /\ runPc = "parseGpx"
    /\ runFatal = "none"
    /\ prefetched = {}
    /\ runCache = {}
    /\ mismatch = FALSE
    /\ scaleCur = -1
    /\ scaleDone = {}
    /\ scaleTiles = {}
    /\ scaledTileCache = {}
    /\ rendered = {}
    /\ blank = {}
    /\ encoderStarted = FALSE

RunNext ==
    \/ ParseGpx
    \/ \E outcome \in ApplyOutcomes : Preprocess(outcome)
    \/ \E t \in RunTiles, outcome \in TileCallOutcomes : PrefetchTile(t, outcome)
    \/ PrefetchReturns
    \/ \E k \in ScaleGrid : ScaleNext(k)
    \/ \E t \in RunTiles, outcome \in TileCallOutcomes : ScaleTile(t, outcome)
    \/ ScaleEnd
    \/ ScaleReturns
    \/ StartRender
    \/ \E f \in RunFrames, t \in RunTiles, k \in ScaleGrid, outcome \in TileCallOutcomes :
          RenderFrame(f, t, k, outcome)
    \/ RenderDone

RunSpec == RunInit /\ [][RunNext]_vars

(***************************************************************************)
(* renderFrame, lines 66-89: which pre-scaled cache entry, if any, a frame *)
(* is drawn from.  The range over the map scaledTileCache visits its keys  *)
(* in an order the Go runtime picks anew for every loop.                   *)
(***************************************************************************)
ScaleSteps == 0..MaxScaleSteps

Abs(x) == IF x < 0 THEN -x ELSE x

\* math.Abs(residualMapScale-keyFloat) < 0.01
KeyMatches(k) == Abs(residualMapScale - k) < keyTolerance

\* for keyStr := range scaledTileCache: the loop visits key k next; on a match
\* it sets targetCachedResidualScale and scaleKey and breaks
RangeStep(k) ==
    /\ renderCall \in RenderCalls
    /\ k \in scaleKeys \ visitedKeys
    /\ IF KeyMatches(k)
          THEN /\ source' = [source EXCEPT ![renderCall] = k]
               /\ renderCall' = renderCall + 1
               /\ visitedKeys' = {}
          ELSE /\ visitedKeys' = visitedKeys \cup {k}
               /\ UNCHANGED <<source, renderCall>>
    /\ UNCHANGED <<outsideRender, residualMapScale, scaleKeys>>

\* the loop ends without a match: targetCachedResidualScale stays -1.0 and
\* the frame is drawn on the dynamic path
RangeEnd ==
    /\ renderCall \in RenderCalls
    /\ visitedKeys = scaleKeys
    /\ source' = [source EXCEPT ![renderCall] = -1]
    /\ renderCall' = renderCall + 1
    /\ visitedKeys' = {}
    /\ UNCHANGED <<outsideRender, residualMapScale, scaleKeys>>

RenderInit ==
    /\ PipeUnused
    /\ PointUnused
    /\ TileUnused
    /\ PrefetchUnused
    /\ RunUnused
    /\ AdjustUnused
    /\ TrackUnused
    /\ residualMapScale \in ScaleSteps
    /\ scaleKeys \in SUBSET ScaleSteps
    /\ renderCall = 1
    /\ visitedKeys = {}
    /\ source = [c \in RenderCalls |-> -2]

RenderNext ==
    \/ \E k \in ScaleSteps : RangeStep(k)
    \/ RangeEnd

RenderSpec == RenderInit /\ [][RenderNext]_vars

(***************************************************************************)
(* applyTrackAdjustments(points, specs).  Indices are the code's (from 0); *)
(* a scale is held as its base-2 logarithm, and a multiplier as the        *)
(* fraction n/d of its base-2 logarithm, so that 2^(1/2) is [n = 1, d = 2].*)
(***************************************************************************)
\* timestamps a track may have after its first point
TimeGrid == {PointInterval * i : i \in 1..MaxGridPoints}

\* the elements of a set of numbers in increasing order
RECURSIVE Sorted(_)
Sorted(S) ==
    IF S = {} THEN <<>>
    ELSE LET m == CHOOSE x \in S : \A y \in S : x <= y
         IN <<m>> \o Sorted(S \ {m})

\* tracks: the first point at 0 s, the others at increasing times
Tracks == {Sorted({0} \cup S) : S \in (SUBSET TimeGrid) \ {{}}}

LogScales == 0..MaxLogScale

\* spec.Duration: 0 stands for nil (no duration= on the line)
Durations == {0, 2 * PointInterval}

\* a directive: PointSpec "0", "<val>s", "+<val>s", "<val>km" or "+<val>km",
\* its scale and its duration
Directives ==
    [kind : {"0"}, val : {0}, scale : LogScales, duration : Durations]
    \cup [kind : {"s"}, val : {PointInterval, 2 * PointInterval},
          scale : LogScales, duration : Durations]
    \cup [kind : {"km"}, val : {1, 2}, scale : LogScales, duration : Durations]
    \cup [kind : {"+s"}, val : {PointInterval}, scale : LogScales,
          duration : Durations]
    \cup [kind : {"+km"}, val : {1}, scale : LogScales, duration : Durations]

RECURSIVE SeqsUpTo(_, _)
SeqsUpTo(S, n) ==
    IF n = 0 THEN {<<>>}
    ELSE LET shorter == SeqsUpTo(S, n - 1)
         IN shorter \cup {Append(q, x) : q \in {r \in shorter : Len(r) = n - 1}, x \in S}

NumPoints == Len(trackTimes)
Timestamp(j) == trackTimes[j + 1]

\* p.Distance in kilometres: the track runs at one kilometre per PointInterval
Distance(j) == Timestamp(j) \div PointInterval

\* (mutant) the loop over the points has no break: the last index found
LastIndex(found) ==
    IF found = {} THEN -1 ELSE CHOOSE j \in found : \A h \in found : j >= h

\* the first of the indices found by a loop over the points, -1 if the
\* loop finds none
FirstIndex(found) ==
    IF found = {} THEN -1 ELSE CHOOSE j \in found : \A h \in found : j <= h

\* transitionDuration of a directive
TransitionOf(d) == IF d.duration = 0 THEN defaultTransition ELSE d.duration

\* the loop over specs: each PointSpec is resolved to a point index, a
\* directive that finds no point is dropped with a warning
RECURSIVE Resolve(_, _, _, _)
Resolve(rest, lastDistance, lastTime, changes) ==
    IF rest = <<>> THEN changes
    ELSE LET d == Head(rest)
             dist == IF d.kind = "+km" THEN d.val + lastDistance ELSE d.val
             timeOffset == IF d.kind = "+s" THEN d.val + lastTime ELSE d.val
             AtOrAfter == {j \in 0..(NumPoints - 1) : Timestamp(j) >= timeOffset}
             Far == {j \in 0..(NumPoints - 1) : Distance(j) >= dist}
             pointIndex == CASE d.kind = "0" -> 0
                             [] d.kind \in {"s", "+s"} -> FirstIndex(AtOrAfter)
                             [] d.kind \in {"km", "+km"} -> FirstIndex(Far)
             change == [PointIndex |-> pointIndex, TargetScale |-> d.scale,
                        TransitionDuration |-> TransitionOf(d)]
         IN Resolve(Tail(rest),
                    IF d.kind \in {"km", "+km"} THEN dist ELSE lastDistance,
                    IF d.kind \in {"s", "+s"} THEN timeOffset ELSE lastTime,
                    IF pointIndex # -1 THEN Append(changes, change) ELSE changes)

\* a multiplier that is exactly the scale 2^e
Exactly(e) == [n |-> e, d |-> 1]

\* math.Pow(2, logPrevScale + progress*(logTargetScale-logPrevScale)) with
\* progress = timeSinceTransitionStart / transitionDuration, clamped at 0
Interpolated(logPrev, logTarget, since, duration) ==
    LET clamped == IF since < 0 THEN 0 ELSE since
    IN [n |-> logPrev * duration + clamped * (logTarget - logPrev), d |-> duration]

\* (mutant) the transition starts from the default scale 1.0
PrevScaleDefault(changes, i) == 0

\* prevScale := scaleChanges[i-1].TargetScale  (changes[i] is scaleChanges[i-1])
PrevScale(changes, i) == changes[i].TargetScale

\* the loop over scaleChanges[i], i from changeIdx: the points from the
\* change's point up to the next change's point get the interpolated scale
\* while the transition lasts and the target after it
RECURSIVE ApplyChanges(_, _, _)
ApplyChanges(changes, i, mult) ==
    IF i >= Len(changes) THEN mult
    ELSE LET change == changes[i + 1]
             start == change.PointIndex
             Stops(j) == i + 1 < Len(changes) /\ j >= changes[i + 2].PointIndex
             Written(j) == j >= start /\ \A h \in start..j : ~Stops(h)
             since(j) == Timestamp(j) - Timestamp(start)
             value(j) == IF since(j) < change.TransitionDuration
                            THEN Interpolated(PrevScale(changes, i), change.TargetScale,
                                              since(j), change.TransitionDuration)
                            ELSE Exactly(change.TargetScale)
         IN ApplyChanges(changes, i + 1,
                         [j \in 0..(NumPoints - 1) |->
                             IF Written(j) THEN value(j) ELSE mult[j]])

\* changeIdx: 1 when the first resolved directive is at point 0
ChangeIdx(changes) ==
    IF Len(changes) > 0 /\ changes[1].PointIndex = 0 THEN 1 ELSE 0

\* scaleChanges[i-1] with i = changeIdx = 0 is an index out of range
Panics(changes) == Len(changes) > 0 /\ ChangeIdx(changes) = 0

\* the whole call
Apply ==
    /\ applyPc = "call"
    /\ applyPc' = "done"
    /\ IF Len(specs) = 0
          THEN /\ scaleChanges' = <<>>
               /\ applyStatus' = "ok"
               /\ scaleMultipliers' = [j \in 0..(NumPoints - 1) |-> Exactly(0)]
          ELSE LET changes == Resolve(specs, 0, 0, <<>>)
                   currentScale == IF ChangeIdx(changes) = 1
                                      THEN changes[1].TargetScale ELSE 0
                   filled == [j \in 0..(NumPoints - 1) |-> Exactly(currentScale)]
               IN /\ scaleChanges' = changes
                  /\ IF Panics(changes)
                        THEN /\ applyStatus' = "panic"
                             /\ scaleMultipliers' = <<>>
                        ELSE /\ applyStatus' = "ok"
                             /\ scaleMultipliers' =
                                    ApplyChanges(changes, ChangeIdx(changes), filled)
    /\ UNCHANGED <<outsideAdjust, trackTimes, specs>>

AdjustInit ==
    /\ PipeUnused
    /\ PointUnused
    /\ TileUnused
    /\ PrefetchUnused
    /\ RunUnused
    /\ RenderUnused
    /\ TrackUnused
    /\ trackTimes \in Tracks
    /\ specs \in SeqsUpTo(Directives, MaxSpecs)
    /\ applyPc = "call"
    /\ scaleChanges = <<>>
    /\ applyStatus = "none"
    /\ scaleMultipliers = <<>>

AdjustNext == Apply

AdjustSpec == AdjustInit /\ [][AdjustNext]_vars

(***************************************************************************)
(* preprocessGpxPoints, lines 379-386 (elevation despiking and cumulative  *)
(* distance), and main's loop over track.Points for track.TotalDistance.   *)
(* Points lie on a meridian, so that the great-circle distance of two      *)
(* points is the difference of their positions.                            *)
(***************************************************************************)
\* (mutant) the difference of the positions with its sign
haversineSigned(p1, p2) == p2 - p1

\* haversine(p1, p2): the great-circle distance, in kilometres
haversine(p1, p2) == Abs(p2 - p1)

\* (mutant) a sample is compared with the raw sample before it
PrevEleRaw(raw, done, i) == raw[i - 1]

\* smoothed[i-1].Ele when sample i is examined: the value already despiked
PrevEle(raw, done, i) == done[i - 1]

\* for i := 1; ...: if math.Abs(smoothed[i].Ele-smoothed[i-1].Ele) >
\* slopeMaxEleChange { smoothed[i].Ele = smoothed[i-1].Ele }
RECURSIVE Despike(_, _)
Despike(raw, done) ==
    IF Len(done) = Len(raw) THEN done
    ELSE LET i == Len(done) + 1
             prev == PrevEle(raw, done, i)
         IN Despike(raw, Append(done,
                IF Abs(raw[i] - prev) > slopeMaxEleChange THEN done[i - 1] ELSE raw[i]))

\* smoothed[i].Distance = smoothed[i-1].Distance + haversine(smoothed[i-1],
\* smoothed[i]); smoothed[0].Distance is the zero value parseGpx leaves
RECURSIVE Cumulative(_, _)
Cumulative(pos, done) ==
    IF Len(done) = Len(pos) THEN done
    ELSE LET i == Len(done) + 1
         IN Cumulative(pos, Append(done, done[i - 1] + haversine(pos[i - 1], pos[i])))

\* track.SmoothedPoints = preprocessGpxPoints(track.Points, args)
PreprocessGpxPoints ==
    /\ trackPc = "preprocess"
    /\ smoothedEle' = Despike(gpxEle, <<gpxEle[1]>>)
    /\ smoothedDistance' = Cumulative(gpxPos, <<0>>)
    /\ trackPc' = "total"
    /\ UNCHANGED <<outsideTrack, gpxEle, gpxPos, TotalDistance>>

\* for i := 1; i < len(track.Points); i++ { track.TotalDistance += haversine(...) }
RECURSIVE SumFrom(_, _, _)
SumFrom(pos, i, total) ==
    IF i > Len(pos) THEN total
    ELSE SumFrom(pos, i + 1, total + haversine(pos[i - 1], pos[i]))

SumTotalDistance ==
    /\ trackPc = "total"
    /\ TotalDistance' = SumFrom(gpxPos, 2, TotalDistance)
    /\ trackPc' = "done"
    /\ UNCHANGED <<outsideTrack, gpxEle, gpxPos, smoothedEle, smoothedDistance>>

TrackLens == 2..MaxTrackLen

TrackInit ==
    /\ PipeUnused
    /\ PointUnused
    /\ TileUnused
    /\ PrefetchUnused
    /\ RunUnused
    /\ RenderUnused
    /\ AdjustUnused
    /\ \E n \in TrackLens :
          /\ gpxEle \in [1..n -> 0..MaxEle]
          /\ gpxPos \in [1..n -> 0..MaxPos]
    /\ trackPc = "preprocess"
    /\ smoothedEle = <<>>
    /\ smoothedDistance = <<>>
    /\ TotalDistance = 0

TrackNext ==
    \/ PreprocessGpxPoints
    \/ SumTotalDistance

TrackSpec == TrackInit /\ [][TrackNext]_vars

(***************************************************************************)
(* preprocessGpxPoints, lines 563-575: the tile zoom and the residual      *)
(* scale of a point.  A scale is the fraction n/d.                         *)
(***************************************************************************)
RECURSIVE Pow2(_)
Pow2(k) == IF k = 0 THEN 1 ELSE 2 * Pow2(k - 1)

\* math.Floor(math.Log2(n/d)) for n/d >= 1
RECURSIVE FloorLog2(_, _)
FloorLog2(n, d) == IF n < 2 * d THEN 0 ELSE 1 + FloorLog2(n, 2 * d)

\* the logarithm rounded up, for n/d >= 1
RECURSIVE CeilLog2(_, _)
CeilLog2(n, d) == IF n <= d THEN 0 ELSE 1 + CeilLog2(n, 2 * d)

\* (mutant) the number of levels is rounded up
ZoomOutLevelsRoundedUp(scale) ==
    IF scale.n > scale.d THEN CeilLog2(scale.n, scale.d) ELSE 0

\* zoomOutLevels := 0.0; if p.MapScale > 1.0 { zoomOutLevels =
\* math.Floor(math.Log2(p.MapScale)) }
ZoomOutLevels(scale) ==
    IF scale.n > scale.d THEN FloorLog2(scale.n, scale.d) ELSE 0

\* p.TileZoom = args.MapZoom - int(zoomOutLevels); if p.TileZoom < 0 { p.TileZoom = 0 }
TileZoomOf(zoom, levels) == IF zoom - levels < 0 THEN 0 ELSE zoom - levels

\* p.ResidualMapScale = p.MapScale / math.Pow(2, zoomOutLevels)
ResidualOf(scale, levels) == [n |-> scale.n, d |-> scale.d * Pow2(levels)]

\* one turn of the loop over smoothed
ZoomAndScale ==
    /\ zoomPc = "call"
    /\ TileZoom' = TileZoomOf(MapZoom, ZoomOutLevels(MapScale))
    /\ ResidualMapScale' = ResidualOf(MapScale, ZoomOutLevels(MapScale))
    /\ zoomPc' = "done"
    /\ UNCHANGED <<outsidePoint, bearingVars, sweepVars, findVars, cutVars, MapZoom,
                   MapScale>>

MapScales == [n : 0..MaxScaleNum, d : 1..MaxScaleDen]

ZoomInit ==
    /\ PipeUnused
    /\ TileUnused
    /\ PrefetchUnused
    /\ RunUnused /\ RenderUnused /\ AdjustUnused /\ TrackUnused
    /\ BearingUnused /\ SweepUnused /\ FindUnused /\ CutUnused
    /\ MapZoom \in 0..MaxMapZoom
    /\ MapScale \in MapScales
    /\ TileZoom = 0
    /\ ResidualMapScale = [n |-> 1, d |-> 1]
    /\ zoomPc = "call"

ZoomNext == ZoomAndScale

ZoomSpec == ZoomInit /\ [][ZoomNext]_vars

(***************************************************************************)
(* preprocessGpxPoints, lines 464-484: the bearings and their smoothing.   *)
(* A bearing is a whole number of units of pi/8 in [-pi, pi], as           *)
(* math.Atan2 returns it.  Sequences are indexed from 1: smoothed[i] of    *)
(* the code is element i + 1.                                              *)
(***************************************************************************)
\* math.Mod(x, y) for y > 0: the result has the sign of x
GoMod(x, y) == IF x >= 0 THEN x % y ELSE -((-x) % y)

\* diff := bearing2 - bearing1; diff = math.Mod(diff+math.Pi, 2*math.Pi) -
\* math.Pi; return math.Abs(diff)
angleBetweenBearings(bearing1, bearing2) ==
    LET diff == bearing2 - bearing1
    IN Abs(GoMod(diff + Pi, 2 * Pi) - Pi)

\* for i := 0; i < len(smoothed)-1; i++ { smoothed[i].Bearing = bearing(...) };
\* the last point copies the bearing before it
ComputeBearings ==
    /\ bearingPc = "bearings"
    /\ Bearing' = [k \in 1..(Len(segmentBearing) + 1) |->
                      IF k <= Len(segmentBearing) THEN segmentBearing[k]
                      ELSE segmentBearing[Len(segmentBearing)]]
    /\ bearingPc' = "smooth"
    /\ UNCHANGED <<outsidePoint, zoomVars, sweepVars, findVars, cutVars, segmentBearing,
                   newBearings, turnAngles>>

\* the loop for i := 1; i < len(smoothed)-1; i++ over newBearings: done holds
\* newBearings[0..i-1]
RECURSIVE SmoothedBearings(_, _)
SmoothedBearings(raw, done) ==
    IF Len(done) >= Len(raw) - 1 THEN done
    ELSE LET k == Len(done) + 1
             b0 == raw[k - 1]
             b1 == raw[k]
         IN SmoothedBearings(raw, Append(done,
                IF angleBetweenBearings(b0, b1) <= Pi \div 4 THEN b1 ELSE done[k - 1]))

\* newBearings := make([]float64, len(smoothed)); the two loops; the last
\* element of newBearings is never set and the last point is never rewritten
SmoothBearings ==
    /\ bearingPc = "smooth"
    /\ LET n == Len(Bearing)
           new == SmoothedBearings(Bearing, <<Bearing[1]>>)
       IN /\ newBearings' = Append(new, 0)
          /\ turnAngles' = [k \in 2..(n - 1) |->
                                angleBetweenBearings(Bearing[k - 1], Bearing[k])]
          /\ Bearing' = [k \in 1..n |-> IF k \in 2..(n - 1) THEN new[k] ELSE Bearing[k]]
    /\ bearingPc' = "done"
    /\ UNCHANGED <<outsidePoint, zoomVars, sweepVars, findVars, cutVars, segmentBearing>>

\* what math.Atan2 returns, in units of pi/8
Bearings == (-Pi)..Pi

BearingInit ==
    /\ PipeUnused
    /\ TileUnused
    /\ PrefetchUnused
    /\ RunUnused /\ RenderUnused /\ AdjustUnused /\ TrackUnused
    /\ ZoomUnused /\ SweepUnused /\ FindUnused /\ CutUnused
    /\ \E n \in 3..MaxBearingLen : segmentBearing \in [1..(n - 1) -> Bearings]
    /\ Bearing = <<>>
    /\ newBearings = <<>>
    /\ turnAngles = <<>>
    /\ bearingPc = "bearings"

BearingNext ==
    \/ ComputeBearings
    \/ SmoothBearings

BearingSpec == BearingInit /\ [][BearingNext]_vars

(***************************************************************************)
(* findPointForTime(offset, startTime, points), with startTime the first   *)
(* point's timestamp.  Times are whole ticks; a returned field is the      *)
(* fraction n/d.  The fields MapScale, TileZoom and ResidualMapScale of    *)
(* the result are left out.                                                *)
(***************************************************************************)
\* a * (1 - r) + b * r for the ratio r = r.n / r.d
Lerp(a, b, r) == [n |-> a * r.d + (b - a) * r.n, d |-> r.d]

\* a field copied as it is
Whole(a) == [n |-> a, d |-> 1]

\* (mutant) an interval of exactly 2 s counts as small
SmallIntervalInclusive(timeDiff) == timeDiff <= 2 * TicksPerSecond

\* if timeDiff < 2.0
SmallInterval(timeDiff) == timeDiff < 2 * TicksPerSecond

\* the Point built from the bracketing points p1 and p2
InterpolatedPoint(p1, p2, targetTime) ==
    LET timeDiff == p2.Timestamp - p1.Timestamp
        ratio == [n |-> targetTime - p1.Timestamp, d |-> timeDiff]
        derivedCalcRatio == IF SmallInterval(timeDiff) THEN [n |-> 0, d |-> timeDiff]
                            ELSE ratio
    IN [Lat |-> Lerp(p1.Lat, p2.Lat, ratio),
        Lon |-> Lerp(p1.Lon, p2.Lon, ratio),
        Ele |-> Lerp(p1.Ele, p2.Ele, ratio),
        Speed |-> Lerp(p1.Speed, p2.Speed, derivedCalcRatio),
        AvgSpeed |-> Lerp(p1.AvgSpeed, p2.AvgSpeed, derivedCalcRatio),
        Slope |-> Lerp(p1.Slope, p2.Slope, derivedCalcRatio),
        SmoothedSlope |-> Lerp(p1.SmoothedSlope, p2.SmoothedSlope, derivedCalcRatio),
        Distance |-> Lerp(p1.Distance, p2.Distance, derivedCalcRatio),
        Timestamp |-> targetTime]

\* return p1 / return points[len(points)-1]: a point of the series
AsReturned(p) ==
    [Lat |-> Whole(p.Lat), Lon |-> Whole(p.Lon), Ele |-> Whole(p.Ele),
     Speed |-> Whole(p.Speed), AvgSpeed |-> Whole(p.AvgSpeed), Slope |-> Whole(p.Slope),
     SmoothedSlope |-> Whole(p.SmoothedSlope), Distance |-> Whole(p.Distance),
     Timestamp |-> p.Timestamp]

\* p1.Timestamp <= targetTime <= p2.Timestamp for p1 = points[i], p2 = points[i+1]
Brackets(points, i, targetTime) ==
    points[i].Timestamp <= targetTime /\ targetTime <= points[i + 1].Timestamp

\* the loop: the first bracketing pair decides
findPointForTime(offset, points) ==
    LET targetTime == points[1].Timestamp + offset
        found == {i \in 1..(Len(points) - 1) : Brackets(points, i, targetTime)}
    IN IF found = {} THEN AsReturned(points[Len(points)])
       ELSE LET i == CHOOSE j \in found : \A h \in found : j <= h
            IN IF points[i + 1].Timestamp - points[i].Timestamp = 0
                  THEN AsReturned(points[i])
                  ELSE InterpolatedPoint(points[i], points[i + 1], targetTime)

FindCall ==
    /\ findPc = "call"
    /\ findResult' = findPointForTime(findOffset, findPoints)
    /\ findPc' = "done"
    /\ UNCHANGED <<outsidePoint, zoomVars, bearingVars, sweepVars, cutVars, findPoints,
                   findOffset>>

\* a point of the series at time t whose fields are at level v (speeds of
\* 10, 20, ... km/h)
SeriesPoint(t, v) ==
    [Timestamp |-> t, Lat |-> v, Lon |-> 2 * v, Ele |-> 3 * v, Speed |-> 10 * (v + 1),
     AvgSpeed |-> 5 * v, Slope |-> 3 - v, SmoothedSlope |-> 2 - v, Distance |-> 4 * v]

\* seconds between two consecutive points
FindGaps == {0, 1, 2, 3}

RECURSIVE TimesOf(_, _)
TimesOf(gaps, done) ==
    IF Len(done) > Len(gaps) THEN done
    ELSE TimesOf(gaps, Append(done, done[Len(done)] + gaps[Len(done)] * TicksPerSecond))

FindInit ==
    /\ PipeUnused
    /\ TileUnused
    /\ PrefetchUnused
    /\ RunUnused /\ RenderUnused /\ AdjustUnused /\ TrackUnused
    /\ ZoomUnused /\ BearingUnused /\ SweepUnused /\ CutUnused
    /\ \E n \in 2..MaxFindLen :
          \E gaps \in [1..(n - 1) -> FindGaps], levels \in [1..n -> 0..MaxLevel] :
              LET times == TimesOf(gaps, <<0>>)
              IN /\ findPoints = [k \in 1..n |-> SeriesPoint(times[k], levels[k])]
                 /\ findOffset \in 0..(times[n] + 1)
    /\ findResult = <<>>
    /\ findPc = "call"

FindNext == FindCall

FindSpec == FindInit /\ [][FindNext]_vars

(***************************************************************************)
(* main, lines 36-58, cutTrack and parseCutBoundary, and the render window *)
(* of runVideoPipeline, lines 79-85.  A boundary string is held as its     *)
(* suffix, whether strconv.ParseFloat accepts the rest, and the number.    *)
(* Indices are the code's (from 0).                                        *)
(***************************************************************************)
\* the boundary strings: none, "<val>s", "<val>km", and strings with a
\* suffix whose number does not parse
Boundaries ==
    {NoCut}
    \cup [suffix : {"s", "km"}, valid : {TRUE}, val : 0..MaxBoundary]
    \cup [suffix : {"s", "km"}, valid : {FALSE}, val : {0}]

\* parseCutBoundary(boundary, points)
parseCutBoundary(boundary, times, dists) ==
    LET n == Len(times)
        AtOrAfter == {i \in 0..(n - 1) : times[i + 1] - times[1] >= boundary.val}
        Far == {i \in 0..(n - 1) : dists[i + 1] >= boundary.val}
        OrLen(i) == IF i = -1 THEN n ELSE i
    IN IF n = 0 THEN 0
       ELSE CASE boundary.suffix = "s" ->
                     IF ~boundary.valid THEN 0 ELSE OrLen(FirstIndex(AtOrAfter))
              [] boundary.suffix = "km" ->
                     IF ~boundary.valid THEN 0 ELSE OrLen(FirstIndex(Far))
              [] OTHER -> 0

\* (mutant) a window is reset only when from lies after to
EmptyWindowStrict(from, to) == from > to

\* if track.RenderFromIndex >= track.RenderToIndex
EmptyWindow(from, to) == from >= to

\* track.RenderToIndex = len(track.SmoothedPoints)  (main, line 38)
SetRenderTo ==
    /\ cutPc = "preprocessed"
    /\ RenderToIndex' = Len(cutTimes)
    /\ cutPc' = "cut"
    /\ UNCHANGED <<outsidePoint, zoomVars, bearingVars, sweepVars, findVars, cutTimes,
                   cutDistance, cutDebug, From, To, RenderFromIndex, printed, indexed,
                   windowFrames>>

\* cutTrack(track, args.From, args.To)
cutTrack ==
    /\ cutPc = "cut"
    /\ LET from == parseCutBoundary(From, cutTimes, cutDistance)
           to == parseCutBoundary(To, cutTimes, cutDistance)
       IN IF EmptyWindow(from, to)
             THEN RenderFromIndex' = 0 /\ RenderToIndex' = 0
             ELSE RenderFromIndex' = from /\ RenderToIndex' = to
    /\ cutPc' = "cutDone"
    /\ UNCHANGED <<outsidePoint, zoomVars, bearingVars, sweepVars, findVars, cutTimes,
                   cutDistance, cutDebug, From, To, printed, indexed, windowFrames>>

\* if args.Debug { for i := track.RenderFromIndex; i < track.RenderToIndex; i++
\* { fmt.Printf(...) }; return }
DebugDump ==
    /\ cutPc = "cutDone"
    /\ cutDebug
    /\ printed' = RenderFromIndex..(RenderToIndex - 1)
    /\ cutPc' = "returned"
    /\ UNCHANGED <<outsidePoint, zoomVars, bearingVars, sweepVars, findVars, cutTimes,
                   cutDistance, cutDebug, From, To, RenderFromIndex, RenderToIndex,
                   indexed, windowFrames>>

\* runVideoPipeline, lines 79-85: RenderToIndex 0 stands for the whole track;
\* segmentDuration and totalFrames; an index out of range panics
RenderWindow(rate) ==
    /\ cutPc = "cutDone"
    /\ ~cutDebug
    /\ LET to == IF RenderToIndex = 0 THEN Len(cutTimes) ELSE RenderToIndex
           used == {to - 1, RenderFromIndex}
       IN /\ RenderToIndex' = to
          /\ indexed' = used
          /\ IF used \subseteq 0..(Len(cutTimes) - 1)
                THEN /\ windowFrames' =
                            TotalFramesOf(2 * (cutTimes[to] - cutTimes[RenderFromIndex + 1]),
                                          rate)
                     /\ cutPc' = "pipeline"
                ELSE /\ windowFrames' = windowFrames
                     /\ cutPc' = "panic"
    /\ UNCHANGED <<outsidePoint, zoomVars, bearingVars, sweepVars, findVars, cutTimes,
                   cutDistance, cutDebug, From, To, RenderFromIndex, printed>>

\* seconds, and kilometres, between two consecutive points
CutGaps == {1, 2}
CutSteps == {0, 1}

RECURSIVE RunningSum(_, _)
RunningSum(steps, done) ==
    IF Len(done) > Len(steps) THEN done
    ELSE RunningSum(steps, Append(done, done[Len(done)] + steps[Len(done)]))

CutInit ==
    /\ PipeUnused
    /\ TileUnused
    /\ PrefetchUnused
    /\ RunUnused /\ RenderUnused /\ AdjustUnused /\ TrackUnused
    /\ ZoomUnused /\ BearingUnused /\ SweepUnused /\ FindUnused
    /\ \E n \in 2..MaxCutLen :
          \E gaps \in [1..(n - 1) -> CutGaps], steps \in [1..(n - 1) -> CutSteps] :
              /\ cutTimes = RunningSum(gaps, <<0>>)
              /\ cutDistance = RunningSum(steps, <<0>>)
    /\ cutDebug \in BOOLEAN
    /\ From \in Boundaries
    /\ To \in Boundaries
    /\ RenderFromIndex = 0
    /\ RenderToIndex = 0
    /\ cutPc = "preprocessed"
    /\ printed = {}
    /\ indexed = {}
    /\ windowFrames = 0

CutNext ==
    \/ SetRenderTo
    \/ cutTrack
    \/ DebugDump
    \/ \E rate \in 1..MaxFramerate : RenderWindow(rate)

CutSpec == CutInit /\ [][CutNext]_vars

(***************************************************************************)
(* preprocessGpxPoints, lines 413-446: the moving average of the speed.    *)
(* One action is one turn of the loop over i.  Indices are the code's      *)
(* (from 0); an average is the fraction n/d.                               *)
(***************************************************************************)
SweepTime(j) == sweepTimes[j + 1]
SpeedAt(j) == Speed[j + 1]

\* (mutant) a point exactly at the window's end is left out
RightInWindowStrict(j, windowEnd) == SweepTime(j) < windowEnd

\* !smoothed[right].Timestamp.After(windowEnd)
RightInWindow(j, windowEnd) == SweepTime(j) <= windowEnd

\* for right < len(smoothed) && !smoothed[right].Timestamp.After(windowEnd)
\* { speedSum += ...; speedCount++; right++ }: the state <<right, sum, count>>
\* the loop ends in
RECURSIVE ExpandRight(_, _, _, _)
ExpandRight(r, sum, count, windowEnd) ==
    IF r < Len(sweepTimes) /\ RightInWindow(r, windowEnd)
       THEN ExpandRight(r + 1, sum + SpeedAt(r), count + 1, windowEnd)
       ELSE <<r, sum, count>>

\* for left < len(smoothed) && smoothed[left].Timestamp.Before(windowStart)
\* { speedSum -= ...; speedCount--; left++ }
RECURSIVE ShrinkLeft(_, _, _, _)
ShrinkLeft(l, sum, count, windowStart) ==
    IF l < Len(sweepTimes) /\ SweepTime(l) < windowStart
       THEN ShrinkLeft(l + 1, sum - SpeedAt(l), count - 1, windowStart)
       ELSE <<l, sum, count>>

\* one turn of for i := range smoothed
SweepPoint ==
    /\ sweepI < Len(sweepTimes)
    /\ Len(sweepTimes) > 0
    /\ LET i == sweepI
           windowStart == SweepTime(i) - avgSpeedWindow
           windowEnd == SweepTime(i) + avgSpeedWindow
           expanded == ExpandRight(right, speedSum, speedCount, windowEnd)
           shrunk == ShrinkLeft(left, expanded[2], expanded[3], windowStart)
           sum == shrunk[2]
           count == shrunk[3]
       IN /\ right' = expanded[1]
          /\ left' = shrunk[1]
          /\ speedSum' = sum
          /\ speedCount' = count
          /\ AvgSpeed' = Append(AvgSpeed,
                               IF count > 0 THEN [n |-> sum, d |-> count]
                               ELSE IF i > 0 THEN AvgSpeed[i]
                               ELSE [n |-> SpeedAt(i), d |-> 1])
    /\ sweepI' = sweepI + 1
    /\ UNCHANGED <<outsidePoint, zoomVars, bearingVars, findVars, cutVars, sweepTimes,
                   Speed>>

\* seconds between two consecutive points: none, inside the window, the
\* window's length, more than the window
SweepGaps == {0, 5, avgSpeedWindow, avgSpeedWindow + 5}

\* the series before the sweep: non-decreasing timestamps; smoothed[0].Speed
\* is the zero value, the speed loop starts at 1
SweepInit ==
    /\ PipeUnused
    /\ TileUnused
    /\ PrefetchUnused
    /\ RunUnused /\ RenderUnused /\ AdjustUnused /\ TrackUnused
    /\ ZoomUnused /\ BearingUnused /\ FindUnused /\ CutUnused
    /\ \E n \in 2..MaxSweepLen :
          /\ \E gaps \in [1..(n - 1) -> SweepGaps] : sweepTimes = RunningSum(gaps, <<0>>)
          /\ \E v \in [2..n -> 0..MaxSpeed] :
                Speed = [k \in 1..n |-> IF k = 1 THEN 0 ELSE v[k]]
    /\ sweepI = 0
    /\ left = 0
    /\ right = 0
    /\ speedSum = 0
    /\ speedCount = 0
    /\ AvgSpeed = <<>>

SweepNext == SweepPoint

SweepSpec == SweepInit /\ [][SweepNext]_vars

(***************************************************************************)
(* Properties of the pipeline                                              *)
(***************************************************************************)
Range(seq) == {seq[i] : i \in 1..Len(seq)}

\* C1: the frames written to the encoder's stdin are frame 0, 1, 2, ... in
\* increasing index order: at every moment the written stream is a prefix of
\* 0..N-1, with no index skipped and none written twice.
C1_WrittenInIndexOrder ==
    /\ Len(written) <= totalFrames
    /\ \A i \in 1..Len(written) : written[i] = i - 1

\* frame 2 reached the writer before frame 1, and both are written after frame 0
C1_Witness ==
    /\ writerPc = "flush"
    /\ written = <<0>>
    /\ frameBuffer = {1, 2}

\* C2 (as claimed): the frames rendered but not yet written (in the frame
\* channel or in the writer's holding area) never outnumber the slots of the
\* task channel, the frame channel and the workers together.
C2_UnwrittenBounded ==
    Len(frameChan) + Cardinality(frameBuffer) <= TasksCap + FrameChanCap + Workers

\* the run returned with its input closed behind frames 0..N-1, N = floor(D*F)
RunComplete ==
    /\ mainPc = "returned"
    /\ stdinCloses = 1
    /\ \A i \in 1..Len(written) : written[i] = i - 1
    /\ 2 * Len(written) <= segmentHalfSeconds * Framerate
    /\ segmentHalfSeconds * Framerate < 2 * (Len(written) + 1)
    /\ TotalFramesOf(20, 1) = 10

\* C3: in a nominal run every frame 0..N-1 is eventually written once, in
\* order, with N = floor(D*F); then the encoder's input is closed and
\* runVideoPipeline returns.  10 s at 1 fps make exactly 10 frames.
C3_EventuallyAllWritten == <>RunComplete

\* a 2.5 s window at 1 fps rendered by two workers ended with 2 frames written
C3_Witness ==
    /\ mainPc = "returned"
    /\ Workers = 2
    /\ segmentHalfSeconds = 5
    /\ written = <<0, 1>>

C5_EncoderLifecycle ==
    /\ [](encoderStarts <= 1 /\ stdinCloses <= 1)
    /\ [](mainPc # "setup" => encoderStarts = 1)
    /\ [](writerPc = "done" => stdinCloses = 1)
    /\ [][stdinCloses >= 1 =>
             written' = written /\ nextFrameToWrite' = nextFrameToWrite]_vars
    /\ [](exitStatus # "none" => stdinCloses = 1)
    /\ [](exitStatus = "nonzero" => fatal = "ffmpeg" /\ mainPc # "returned")
    /\ [](mainPc = "returned" => exitStatus = "zero")

\* the encoder failed after its input was closed behind the last frame
C5_Witness ==
    /\ fatal = "ffmpeg"
    /\ exitStatus = "nonzero"
    /\ stdinCloses = 1
    /\ totalFrames >= 2
    /\ written = IndexOrder(totalFrames)

\* C6 (as claimed): when the run ends normally, every frame whose encoding
\* did not fail has been written to the encoder.
C6_OtherFramesWritten ==
    (mainPc = "returned" /\ ~pipeBroken) =>
        \A f \in 0..(totalFrames - 1) : f \in failedFrames \/ f \in Range(written)

(***************************************************************************)
(* Properties of the tile cache                                            *)
(***************************************************************************)
\* the call of caller c returns in this step
ReturnsNow(c) == cpc[c] # "idle" /\ cpc'[c] = "idle"

C8_Idempotent ==
    [][\A c \in Callers :
          chist[c].late =>
             /\ cpc'[c] # "download" /\ ~chist'[c].net
             /\ ReturnsNow(c) =>
                    /\ cret'[c].status = "ok"
                    /\ cret'[c].img = succeeded[ckey[c]]
      ]_vars

\* a later call of caller 1 has returned the bitmap while caller 2, which
\* started before the first success, is still about to store its download
C8_Witness ==
    /\ cpc[1] = "idle" /\ cret[1].late /\ cret[1].status = "ok"
    /\ cret[1].img = succeeded[1]
    /\ cpc[2] = "store" /\ ckey[2] = 1 /\ ~chist[2].late

\* C9: whatever the interleaving of concurrent calls for one key, a call
\* fails only when a download or a file operation failed, the bitmaps
\* returned for a key are equal, and the memory cache holds nothing else.
C9_RaceHarmless ==
    \A c \in Callers :
        /\ cret[c].status \in {"none", "ok"} \cup EnvironmentErrors
        /\ cret[c].status = "ok" =>
               /\ tileCache[cret[c].img.key] = cret[c].img
               /\ \A d \in Callers :
                      (cret[d].status = "ok" /\ cret[d].img.key = cret[c].img.key)
                          => cret[d].img = cret[c].img

(***************************************************************************)
(* Properties of the prefetch                                              *)
(***************************************************************************)
\* C10: at most tileFetchConcurrency fetches are in progress at any moment,
\* and prefetchTiles has returned only if getTileImage has been called, and
\* has returned, for every tile of the set.
C10_BoundedPrefetch ==
    /\ Cardinality(Fetching) <= tileFetchConcurrency
    /\ prefetchPc = "returned" => Attempted = Tiles

\* tileFetchConcurrency fetches are in progress at once; a further tile
\* waits for a free slot
C10_Witness ==
    /\ Cardinality(Fetching) = tileFetchConcurrency
    /\ prefetchPc = "loop"
    /\ \E t \in Tiles : ptile[t] = "pending"

\* C11: while the delay that follows a completed fetch has not elapsed (its
\* goroutine is still in time.Sleep), the prefetch starts no further fetch.
C11_GlobalDelay ==
    [][\A t \in Tiles :
          (ptile[t] = "pending" /\ ptile'[t] = "fetching") =>
              \A u \in Tiles : ptile[u] # "sleeping"
      ]_vars

(***************************************************************************)
(* Properties of a run of main                                             *)
(***************************************************************************)
\* C12: once a getTileImage call has failed on the 2x tile size, the run
\* renders no frame (it is aborted instead of going on with the tile missing).
C12_MismatchAborts == mismatch => rendered = {}

\* C13: a failed fetch of a tile, a request timeout included, never ends the
\* run.
C13_FetchFailureNotFatal == runFatal # "tileTimeout"

\* C14: scaledTileCache is written only while main is inside cacheScaledTiles,
\* before any frame is rendered and before the encoder is started, and main
\* starts rendering only after cacheScaledTiles has visited every scale.
C14_ScaledCacheReadOnly ==
    [][/\ scaledTileCache' # scaledTileCache =>
              runPc = "scale" /\ rendered = {} /\ ~encoderStarted
       /\ (rendered' # {} \/ runPc' \in {"render", "firstFrame", "pipeline"}) =>
              /\ scaledTileCache' = scaledTileCache
              /\ adjFile = "ok" => (scaleCur = -1 /\ scaleDone = adjScales)
      ]_vars

\* frames are being rendered from a scaled-tile cache built for a scale
C14_Witness ==
    /\ runPc = "pipeline" /\ rendered = {1}
    /\ scaledTileCache = {<<1, t>> : t \in RunTiles}

\* the inputs the run must refuse
BadConfig ==
    \/ gpxPoints < 2
    \/ adjFile \in {"unreadable", "shortLine", "badScale", "badDuration",
                    "unknownParam", "noScale"}

\* C18: with a track of fewer than 2 points, or an adjustment file that is
\* unreadable, has a malformed scale or duration, an unknown parameter or a
\* line without a scale, the run fetches no tile, renders no frame and starts
\* no encoder: it never gets past the preparation of the track, where it ends
\* with a fatal error.
C18_FailFast ==
    BadConfig =>
        /\ prefetched = {} /\ runCache = {} /\ rendered = {} /\ ~encoderStarted
        /\ runPc \in {"parseGpx", "preprocess"}
        /\ runPc = "preprocess" => gpxPoints >= 2
        /\ ~RunGoing => runFatal \in {"gpx", "points", adjFile}

\* a line without scale= ended the run before anything was fetched
C18_Witness ==
    /\ runFatal = "noScale" /\ gpxPoints = 2
    /\ prefetched = {} /\ rendered = {} /\ ~encoderStarted

(***************************************************************************)
(* Properties of renderFrame                                               *)
(***************************************************************************)
\* C15: calls of renderFrame with the same residual scale and the same
\* scaled-tile cache choose the same tile source, whatever order the keys of
\* the cache are visited in.
C15_SameSource ==
    \A c, d \in RenderCalls :
        (source[c] # -2 /\ source[d] # -2) => source[c] = source[d]

(***************************************************************************)
(* Properties of applyTrackAdjustments                                     *)
(***************************************************************************)
\* the directives were resolved to points in track order
Ascending(changes) ==
    \A i \in 1..(Len(changes) - 1) : changes[i].PointIndex <= changes[i + 1].PointIndex

\* the last directive at or before point j
Governing(j) ==
    CHOOSE g \in 1..Len(scaleChanges) :
        /\ scaleChanges[g].PointIndex <= j
        /\ \A h \in (g + 1)..Len(scaleChanges) : scaleChanges[h].PointIndex > j

\* two multipliers are the same power of 2
SamePower(a, b) == a.n * b.d = b.n * a.d

\* C16: inside a directive's transition window a point's multiplier is the
\* interpolation, linear in the base-2 logarithm, between the previous
\* directive's target and the directive's target, and from the end of the
\* window on it is the target exactly; from 1.0 to 2.0 over 10 s the
\* multiplier 5 s into the window is 2^(1/2).
C16_LogInterpolation ==
    /\ SamePower(Interpolated(0, 1, 5, 10), [n |-> 1, d |-> 2])
    /\ (applyPc = "done" /\ applyStatus = "ok" /\ Len(scaleChanges) > 0
           /\ Ascending(scaleChanges)) =>
          \A j \in 0..(NumPoints - 1) :
              LET g == Governing(j)
                  target == scaleChanges[g].TargetScale
                  duration == scaleChanges[g].TransitionDuration
                  since == Timestamp(j) - Timestamp(scaleChanges[g].PointIndex)
              IN IF g = 1 THEN scaleMultipliers[j] = Exactly(target)
                 ELSE LET prev == scaleChanges[g - 1].TargetScale
                      IN IF since < duration
                            THEN SamePower(scaleMultipliers[j],
                                           [n |-> prev * duration + since * (target - prev),
                                            d |-> duration])
                            ELSE scaleMultipliers[j] = Exactly(target)

\* a track with points every 5 s; "0 scale=1" and "5s scale=2 duration=10":
\* the point 5 s after the directive's point has 2^(5/10), the point 10 s
\* after it has 2.0 exactly
C16_Witness ==
    /\ applyPc = "done" /\ applyStatus = "ok"
    /\ trackTimes = <<0, 5, 10, 15>>
    /\ specs = <<[kind |-> "0", val |-> 0, scale |-> 0, duration |-> 0],
                 [kind |-> "s", val |-> 5, scale |-> 1, duration |-> 10]>>
    /\ scaleMultipliers[2] = [n |-> 5, d |-> 10]
    /\ scaleMultipliers[3] = Exactly(1)

\* C17: applyTrackAdjustments returns, for every track and every list of
\* well-formed directives, one multiplier per point, and every point before
\* the first resolved directive's point has the multiplier 1.0.
C17_DefaultBeforeFirst ==
    applyPc = "done" =>
        /\ applyStatus = "ok"
        /\ DOMAIN scaleMultipliers = 0..(NumPoints - 1)
        /\ \A j \in 0..(NumPoints - 1) :
               (\A i \in 1..Len(scaleChanges) : j < scaleChanges[i].PointIndex)
                   => scaleMultipliers[j] = Exactly(0)

(***************************************************************************)
(* Properties of preprocessGpxPoints                                       *)
(***************************************************************************)
\* C19: a sample more than 3 m away from the despiked sample before it takes
\* that sample's elevation, a sample at most 3 m away keeps its own, and so
\* consecutive despiked elevations differ by at most 3 m.
C19_Despiking ==
    trackPc \in {"total", "done"} =>
        /\ Len(smoothedEle) = Len(gpxEle)
        /\ smoothedEle[1] = gpxEle[1]
        /\ \A i \in 2..Len(gpxEle) :
               /\ Abs(gpxEle[i] - smoothedEle[i - 1]) > 3 =>
                      smoothedEle[i] = smoothedEle[i - 1]
               /\ Abs(gpxEle[i] - smoothedEle[i - 1]) <= 3 =>
                      smoothedEle[i] = gpxEle[i]
               /\ Abs(smoothedEle[i] - smoothedEle[i - 1]) <= 3

\* a spike of 4 m is replaced, and the sample after it, 3 m above the
\* replaced value, is kept
C19_Witness ==
    /\ trackPc = "done"
    /\ gpxEle = <<0, 4, 3>>
    /\ smoothedEle = <<0, 0, 3>>

\* the sum of the great-circle distances of the first k consecutive pairs
RECURSIVE PairSum(_)
PairSum(k) == IF k = 0 THEN 0 ELSE PairSum(k - 1) + Abs(gpxPos[k + 1] - gpxPos[k])

\* C20: the cumulative distance is 0 at the first point, never decreases
\* along the series, is at each point the sum of the great-circle distances of
\* the consecutive pairs before it, and at the last point equals
\* track.TotalDistance.
C20_CumulativeDistance ==
    /\ trackPc \in {"total", "done"} =>
          /\ Len(smoothedDistance) = Len(gpxPos)
          /\ smoothedDistance[1] = 0
          /\ \A i \in 2..Len(gpxPos) : smoothedDistance[i - 1] <= smoothedDistance[i]
          /\ \A i \in 1..Len(gpxPos) : smoothedDistance[i] = PairSum(i - 1)
    /\ trackPc = "done" => smoothedDistance[Len(gpxPos)] = TotalDistance

\* a track that goes one kilometre out and comes back
C20_Witness ==
    /\ trackPc = "done"
    /\ gpxPos = <<0, 1, 0>>
    /\ smoothedDistance = <<0, 1, 2>>
    /\ TotalDistance = 2

(***************************************************************************)
(* Properties of the zoom loop                                             *)
(***************************************************************************)
\* zoom_delta of a scale: floor(log2(scale)) when scale > 1, else 0
ZoomDelta ==
    IF MapScale.n > MapScale.d
       THEN CHOOSE z \in 0..MaxScaleNum :
                /\ Pow2(z) * MapScale.d <= MapScale.n
                /\ MapScale.n < Pow2(z + 1) * MapScale.d
       ELSE 0

\* C21: for a processed point, residual_scale * 2^zoom_delta is the point's
\* map scale, and its tile zoom is base_zoom - zoom_delta, or 0 when that is
\* negative.
C21_ZoomAndResidual ==
    zoomPc = "done" =>
        /\ ResidualMapScale.n * Pow2(ZoomDelta) * MapScale.d
               = MapScale.n * ResidualMapScale.d
        /\ TileZoom = IF MapZoom - ZoomDelta < 0 THEN 0 ELSE MapZoom - ZoomDelta

\* scale 5.0 at base zoom 1: two levels out, the zoom clamped at 0, and the
\* residual 5/4
C21_Witness ==
    /\ zoomPc = "done"
    /\ MapZoom = 1
    /\ MapScale = [n |-> 5, d |-> 1]
    /\ TileZoom = 0
    /\ ResidualMapScale = [n |-> 5, d |-> 4]

(***************************************************************************)
(* Properties of the bearing block                                         *)
(***************************************************************************)
\* the smallest angle between two directions
SmallestAngle(a, b) ==
    LET d == Abs(b - a)
    IN IF d > Pi THEN 2 * Pi - d ELSE d

\* the points the smoothing pass handles
Smoothed == 2..(Len(Bearing) - 1)

\* the bearing of point k before the smoothing pass
RawBearing(k) == segmentBearing[k]

\* C22: in the smoothing pass a turn of more than 45 degrees between
\* consecutive segment bearings is suppressed, the point keeping the
\* smoothed bearing of the point before it, and a turn of at most 45 degrees
\* passes through, the point keeping its own bearing.
C22_BearingSmoothing ==
    bearingPc = "done" =>
        \A k \in Smoothed :
            IF SmallestAngle(RawBearing(k - 1), RawBearing(k)) > Pi \div 4
               THEN Bearing[k] = Bearing[k - 1]
               ELSE Bearing[k] = RawBearing(k)

\* C28: angleBetweenBearings(b1, b2) is the smallest angle between the two
\* directions, a value in [0, pi] that does not depend on the order of the
\* arguments, so the smoothing pass accepts a turn of at most 45 degrees
\* also across the wrap-around at +-180 degrees, in either direction.
C28_AngleBetweenBearings ==
    bearingPc = "done" =>
        /\ \A k \in Smoothed :
               /\ turnAngles[k] \in 0..Pi
               /\ turnAngles[k] = SmallestAngle(RawBearing(k - 1), RawBearing(k))
        /\ \A k, h \in Smoothed :
               (RawBearing(k - 1) = RawBearing(h) /\ RawBearing(k) = RawBearing(h - 1))
                   => turnAngles[k] = turnAngles[h]
        /\ \A k \in Smoothed :
               (/\ Abs(RawBearing(k) - RawBearing(k - 1)) > Pi
                /\ SmallestAngle(RawBearing(k - 1), RawBearing(k)) <= Pi \div 4)
                   => Bearing[k] = RawBearing(k)

(***************************************************************************)
(* Properties of findPointForTime                                          *)
(***************************************************************************)
\* the target time lies strictly inside the interval of points i and i + 1
StrictlyInside(i) ==
    /\ findPoints[i].Timestamp < findPoints[1].Timestamp + findOffset
    /\ findPoints[1].Timestamp + findOffset < findPoints[i + 1].Timestamp

\* the fraction v is the value a + (b - a) * part / whole
IsLinear(v, a, b, part, whole) == v.n * whole = (a * whole + (b - a) * part) * v.d

\* the fraction v is the number a
IsValue(v, a) == v.n = a * v.d

\* C23: for a target time strictly inside a bracketing interval, latitude,
\* longitude and elevation are interpolated linearly on the elapsed-time
\* ratio; speed, average speed, slope, smoothed slope and cumulative
\* distance are the earlier point's values when the interval is shorter
\* than 2 s, and are interpolated with the same ratio when it is 2 s or
\* longer.
C23_DerivedRatio ==
    findPc = "done" =>
        \A i \in 1..(Len(findPoints) - 1) :
            StrictlyInside(i) =>
                LET p1 == findPoints[i]
                    p2 == findPoints[i + 1]
                    whole == p2.Timestamp - p1.Timestamp
                    part == findPoints[1].Timestamp + findOffset - p1.Timestamp
                    r == findResult
                IN /\ IsLinear(r.Lat, p1.Lat, p2.Lat, part, whole)
                   /\ IsLinear(r.Lon, p1.Lon, p2.Lon, part, whole)
                   /\ IsLinear(r.Ele, p1.Ele, p2.Ele, part, whole)
                   /\ IF whole < 2 * TicksPerSecond
                         THEN /\ IsValue(r.Speed, p1.Speed)
                              /\ IsValue(r.AvgSpeed, p1.AvgSpeed)
                              /\ IsValue(r.Slope, p1.Slope)
                              /\ IsValue(r.SmoothedSlope, p1.SmoothedSlope)
                              /\ IsValue(r.Distance, p1.Distance)
                         ELSE /\ IsLinear(r.Speed, p1.Speed, p2.Speed, part, whole)
                              /\ IsLinear(r.AvgSpeed, p1.AvgSpeed, p2.AvgSpeed, part, whole)
                              /\ IsLinear(r.Slope, p1.Slope, p2.Slope, part, whole)
                              /\ IsLinear(r.SmoothedSlope, p1.SmoothedSlope,
                                          p2.SmoothedSlope, part, whole)
                              /\ IsLinear(r.Distance, p1.Distance, p2.Distance, part,
                                          whole)

\* two points 1 s apart with speeds 10 and 20 km/h, the target half a second
\* in: the latitude is halfway, the speed is 10
C23_Witness ==
    /\ findPc = "done"
    /\ Len(findPoints) = 2
    /\ findPoints[2].Timestamp - findPoints[1].Timestamp = TicksPerSecond
    /\ findPoints[1].Speed = 10 /\ findPoints[2].Speed = 20
    /\ StrictlyInside(1)
    /\ IsValue(findResult.Speed, 10)
    /\ 2 * findResult.Lat.n = findResult.Lat.d
           * (findPoints[1].Lat + findPoints[2].Lat)

(***************************************************************************)
(* Properties of the render window                                         *)
(***************************************************************************)
\* C24: in debug mode with no cut given, the program prints one line for
\* every point of the processed series and renders nothing.
C24_DebugDumpsAll ==
    (cutDebug /\ From = NoCut /\ To = NoCut /\ cutPc = "returned") =>
        /\ printed = 0..(Len(cutTimes) - 1)
        /\ indexed = {}

\* C29: after cutTrack either RenderFromIndex = RenderToIndex = 0 or
\* 0 <= RenderFromIndex < RenderToIndex <= len(SmoothedPoints); so the two
\* accesses of runVideoPipeline to SmoothedPoints are in range and the
\* frame count is not negative.
C29_RenderWindow ==
    /\ cutPc \in {"cutDone", "returned", "pipeline", "panic"} =>
           \/ RenderFromIndex = 0 /\ RenderToIndex = 0
           \/ /\ 0 <= RenderFromIndex
              /\ RenderFromIndex < RenderToIndex
              /\ RenderToIndex <= Len(cutTimes)
    /\ cutPc # "panic"
    /\ cutPc = "pipeline" =>
           /\ indexed = {RenderToIndex - 1, RenderFromIndex}
           /\ indexed \subseteq 0..(Len(cutTimes) - 1)
           /\ windowFrames >= 0

\* a window cut out of the middle: from "1s" to "2km" on a track of three
\* points, rendered from point 1 to point 2
C29_Witness ==
    /\ cutPc = "pipeline"
    /\ Len(cutTimes) = 3
    /\ From = [suffix |-> "s", valid |-> TRUE, val |-> 1]
    /\ To = [suffix |-> "km", valid |-> TRUE, val |-> 2]
    /\ RenderFromIndex = 1
    /\ RenderToIndex = 2
    /\ indexed = {1}

(***************************************************************************)
(* Properties of the writer's holding area and of the frame channel        *)
(***************************************************************************)
\* C25: whenever the writer waits for the next arrival, frameBuffer holds
\* only frames above the next expected index (every arrival is followed by
\* writing and removing the whole contiguous run from the next expected
\* index on); a written frame is never retained, and once the last frame
\* is written the holding area is empty.
C25_HoldingArea ==
    /\ writerPc = "select" => \A k \in frameBuffer : k > nextFrameToWrite
    /\ \A k \in frameBuffer : k >= nextFrameToWrite /\ k \notin Range(written)
    /\ nextFrameToWrite >= totalFrames => frameBuffer = {}

\* frame 0 is written, frame 2 is held back until frame 1 arrives
C25_Witness ==
    /\ writerPc = "select"
    /\ written = <<0>>
    /\ nextFrameToWrite = 1
    /\ frameBuffer = {2}

\* C30: frameChan is closed only after every worker is done, so no worker
\* sends on the closed channel; the writer sees the channel closed before
\* the last frame is written only if some frame was never delivered; and
\* the tasks 0..N-1 are handed out one by one in index order, each to one
\* worker, all of them by the time the workers are done.
C30_CloseAfterWorkers ==
    [][/\ frameClosed' => \A w \in WorkerIds : wpc'[w] = "done"
       /\ fatal' # "panic"
       /\ premature' => failedFrames' # {}
       /\ \A w \in WorkerIds :
              (wpc[w] = "recv" /\ wpc'[w] = "render") =>
                  /\ wframe'[w] = prodI - Len(tasks)
                  /\ Len(tasks') = Len(tasks) - 1
                  /\ \A v \in WorkerIds \ {w} : wpc'[v] = wpc[v] /\ wframe'[v] = wframe[v]
       /\ (\A w \in WorkerIds : wpc'[w] = "done") =>
              prodI' = totalFrames /\ tasks' = <<>>]_vars

\* two workers have delivered three frames and are done, and the channel is
\* closed
C30_Witness ==
    /\ Workers = 2
    /\ totalFrames = 3
    /\ frameClosed
    /\ \A w \in WorkerIds : wpc[w] = "done"
    /\ failedFrames = {}
    /\ written = IndexOrder(3)

(***************************************************************************)
(* Properties of the average speed sweep                                   *)
(***************************************************************************)
\* the points within avgSpeedWindow before or after point j, bounds included
WindowOf(j) ==
    {h \in 0..(Len(sweepTimes) - 1) : Abs(SweepTime(h) - SweepTime(j)) <= avgSpeedWindow}

RECURSIVE SumOfSpeeds(_)
SumOfSpeeds(S) ==
    IF S = {} THEN 0
    ELSE LET h == CHOOSE x \in S : TRUE
         IN SpeedAt(h) + SumOfSpeeds(S \ {h})

\* C26: on a series with non-decreasing timestamps the sweep gives every
\* point the arithmetic mean of the Speed of exactly the points within 15 s
\* before or after it (bounds included), as the brute-force windowed mean
\* does; both pointers only advance, and the window [left, right) of a
\* point contains the point.
C26_WindowedMean ==
    [][/\ left' >= left
       /\ right' >= right
       /\ sweepI' > 0 =>
              LET i == sweepI' - 1
              IN /\ left' <= i /\ i < right'
                 /\ left'..(right' - 1) = WindowOf(i)
                 /\ speedCount' = Cardinality(WindowOf(i))
                 /\ AvgSpeed'[i + 1].n * Cardinality(WindowOf(i))
                        = SumOfSpeeds(WindowOf(i)) * AvgSpeed'[i + 1].d]_vars

\* four points at 0, 15, 20 and 35 s with speeds 0, 2, 1, 2: the point at
\* 15 s averages the first three (the point 15 s before it included), the
\* last one the last two (the point 15 s before it included), the left
\* pointer having advanced past the first two points
C26_Witness ==
    /\ sweepTimes = <<0, 15, 20, 35>>
    /\ Speed = <<0, 2, 1, 2>>
    /\ sweepI = 4
    /\ left = 2 /\ right = 4
    /\ AvgSpeed[2] = [n |-> 3, d |-> 3]
    /\ AvgSpeed[4] = [n |-> 3, d |-> 2]

(***************************************************************************)
(* Properties of the resolution of the directives                          *)
(***************************************************************************)
SameKind(a, b) ==
    \/ a \in {"s", "+s"} /\ b \in {"s", "+s"}
    \/ a \in {"km", "+km"} /\ b \in {"km", "+km"}

\* the target of the k-th directive's locator: its value, added to the
\* target of the previous locator of the same kind when it starts with +
RECURSIVE TargetOf(_)
TargetOf(k) ==
    LET d == specs[k]
        earlier == {h \in 1..(k - 1) : SameKind(specs[h].kind, d.kind)}
        previous == IF earlier = {} THEN 0
                    ELSE TargetOf(CHOOSE h \in earlier : \A g \in earlier : g <= h)
    IN IF d.kind \in {"+s", "+km"} THEN d.val + previous ELSE d.val

\* the points that reach the k-th directive's target
Reaching(k) ==
    CASE specs[k].kind = "0" -> {0}
      [] specs[k].kind \in {"s", "+s"} ->
             {j \in 0..(NumPoints - 1) : Timestamp(j) - Timestamp(0) >= TargetOf(k)}
      [] specs[k].kind \in {"km", "+km"} ->
             {j \in 0..(NumPoints - 1) : Distance(j) >= TargetOf(k)}

\* the directives some point reaches, in file order
Reached == SelectSeq([k \in 1..Len(specs) |-> k], LAMBDA k : Reaching(k) # {})

\* C27: each locator resolves to the lowest-index point whose cumulative
\* distance (km) or elapsed time (s) is at least its target, a + value being
\* added to the target of the previous locator of the same kind; a locator
\* no point reaches is skipped: the others are resolved and applied as they
\* are, and the skipping does not end the call.
C27_LocatorResolution ==
    applyPc = "done" =>
        /\ Len(scaleChanges) = Len(Reached)
        /\ \A c \in 1..Len(Reached) :
               LET k == Reached[c]
               IN /\ scaleChanges[c].PointIndex \in Reaching(k)
                  /\ \A j \in Reaching(k) : scaleChanges[c].PointIndex <= j
                  /\ scaleChanges[c].TargetScale = specs[k].scale
                  /\ scaleChanges[c].TransitionDuration = TransitionOf(specs[k])
        /\ (Len(Reached) < Len(specs)
               /\ (Reached = <<>> \/ scaleChanges[1].PointIndex = 0)) =>
               /\ applyStatus = "ok"
               /\ DOMAIN scaleMultipliers = 0..(NumPoints - 1)
               /\ Reached = <<>> =>
                      \A j \in 0..(NumPoints - 1) : scaleMultipliers[j] = Exactly(0)

\* on a track of 5 s, "10s scale=2" finds no point and is skipped, and the
\* "0 scale=2" after it is applied to the whole track
C27_Witness ==
    /\ applyPc = "done" /\ applyStatus = "ok"
    /\ trackTimes = <<0, 5>>
    /\ specs = <<[kind |-> "s", val |-> 10, scale |-> 1, duration |-> 0],
                 [kind |-> "0", val |-> 0, scale |-> 1, duration |-> 0]>>
    /\ Len(scaleChanges) = 1
    /\ scaleChanges[1].PointIndex = 0
    /\ scaleMultipliers[1] = Exactly(1)

====
